---------------------------- MODULE Spec2Model ----------------------------
(***************************************************************************)
(* A model of the real-time conversation subsystem of the rental-listings  *)
(* backend: the presence registry, the conversation rooms, the access      *)
(* guard and the message ledger of src/src/socket/chat.socket.js, with the *)
(* REST message routes of src/src/routes/admin.routes.js (the              *)
(* messagesRouter part) and the tables of src/src/sql/001_init.sql.        *)
(*                                                                         *)
(* Conventions.  A user id, a conversation id, a message id and a socket   *)
(* id are positive integers (they stand for uuid strings and socket.io     *)
(* ids); 0 stands for a string that is not a uuid.  A message body is a    *)
(* sequence of one-character strings.  A timestamp is a value of the       *)
(* store's clock, NULL is 0.  Every `await pool.query(...)` of a handler   *)
(* is one step: the store runs the statement and the handler continues up  *)
(* to its next await.                                                      *)
(***************************************************************************)
EXTENDS Integers, Sequences, FiniteSets, Bags, TLC

VARIABLES
  onlineSocketsByUser,   \* the Map of chat.socket.js:27: user id -> set of socket ids
  lastCall,              \* the last direct call of a registry function, with what it returned
  sockets,               \* socket id -> [state, userId]: the connections and socket.data.user
  rooms,                 \* set of <<socket id, room>>: socket.io room membership
  resync,                \* socket id -> state of its joinAllUserConversationRooms promise
  presenceTasks,         \* the emitPresenceForUser calls whose store query is pending
  presenceCalls,         \* user id -> the isOnline of each emitPresenceForUser call so far, in call order
  conversations,         \* conversation id -> row of table conversations
  listings,              \* listing id -> row of table listings
  conversation_participants, \* <<conversation id, user id>> -> last_read_at
  messages,              \* message id -> row of table messages
  message_edits,         \* set of rows of table message_edits
  clock,                 \* the store's now()
  tasks,                 \* handler invocation -> its position, locals and acknowledgment
  broadcasts,            \* the bag of every emit so far (io.to(room).emit, socket.emit)
  handshake              \* socket id -> what the client presented to the handshake middleware

vars == << onlineSocketsByUser, lastCall, sockets, rooms, resync, presenceTasks,
           presenceCalls, conversations, listings, conversation_participants, messages,
           message_edits, clock, tasks, broadcasts, handshake >>

-----------------------------------------------------------------------------
(* Bounds of the model *)

MaxSockets == 2
MaxMessages == 1
MaxClock == 5

Users == {1, 2}
SocketIds == 1..MaxSockets
Conversations == {1, 2}
Tasks == {1, 2}

NULL == 0

\* now() at the start; the rows of before the start are older
StartClock == 2

-----------------------------------------------------------------------------
(* The presence registry, chat.socket.js:27-69 *)

\* Map.get(key) ?? new Set()
GetOrEmpty(map, key) == IF key \in DOMAIN map THEN map[key] ELSE {}

\* Map.set(key, value)
MapSet(map, key, value) ==
  [k \in DOMAIN map \cup {key} |-> IF k = key THEN value ELSE map[k]]

\* Map.delete(key)
MapDelete(map, key) == [k \in DOMAIN map \ {key} |-> map[k]]

addOnlineSocket_alwaysTrue(map, userId, socketId) ==
  LET existing == GetOrEmpty(map, userId)
  IN [map |-> MapSet(map, userId, existing \cup {socketId}),
      ret |-> TRUE]

\* addOnlineSocket(userId, socketId): the registry after the call and the
\* value returned (wasOffline).
addOnlineSocket(map, userId, socketId) ==
  LET existing == GetOrEmpty(map, userId)
      wasOffline == Cardinality(existing) = 0
  IN [map |-> MapSet(map, userId, existing \cup {socketId}),
      ret |-> wasOffline]

removeOnlineSocket_dropsEntry(map, userId, socketId) ==
  IF userId \notin DOMAIN map
  THEN [map |-> map, ret |-> FALSE]
  ELSE [map |-> MapDelete(map, userId), ret |-> TRUE]

\* A removal that reports the user offline again when it finds no entry
removeOnlineSocket_offlineAgain(map, userId, socketId) ==
  IF userId \notin DOMAIN map
  THEN [map |-> map, ret |-> TRUE]
  ELSE LET existing == map[userId] \ {socketId}
       IN IF Cardinality(existing) = 0
          THEN [map |-> MapDelete(map, userId), ret |-> TRUE]
          ELSE [map |-> MapSet(map, userId, existing), ret |-> FALSE]

removeOnlineSocket_keepsEntry(map, userId, socketId) ==
  IF userId \notin DOMAIN map
  THEN [map |-> map, ret |-> FALSE]
  ELSE LET existing == map[userId] \ {socketId}
       IN [map |-> MapSet(map, userId, existing),
           ret |-> Cardinality(existing) = 0]

\* removeOnlineSocket(userId, socketId): the registry after the call and the
\* value returned (becameOffline).
removeOnlineSocket(map, userId, socketId) ==
  IF userId \notin DOMAIN map
  THEN [map |-> map, ret |-> FALSE]
  ELSE LET existing == map[userId] \ {socketId}
       IN IF Cardinality(existing) = 0
          THEN [map |-> MapDelete(map, userId), ret |-> TRUE]
          ELSE [map |-> MapSet(map, userId, existing), ret |-> FALSE]

\* isUserOnline(userId)
isUserOnline(map, userId) ==
  IF userId \in DOMAIN map THEN Cardinality(map[userId]) > 0 ELSE FALSE


-----------------------------------------------------------------------------
(* Rooms, acknowledgments and payload schemas, chat.socket.js:6-39, 84-90 *)

conversationRoom(conversationId) == <<"conversation", conversationId>>

userRoom(userId) == <<"user", userId>>

socketError(message, details) == [ok |-> FALSE, error |-> message, details |-> details]

socketOk(payload) == [ok |-> TRUE] @@ payload

NoAck == [none |-> TRUE]

\* z.string().uuid(): 0 stands for a string that is no uuid
IsUuid(id) == id \in Nat \ {0}

\* The payload is an object with this key (a payload that is undefined, null
\* or no object has no key)
Has(payload, key) == key \in DOMAIN payload

\* A payload that is not given
Undefined == [undefined |-> TRUE]

PresenceBatchMin == 1
PresenceBatchMax == 200

presenceBatchSchema_below(payload) ==
  /\ Has(payload, "userIds")
  /\ \A i \in 1..Len(payload.userIds) : IsUuid(payload.userIds[i])
  /\ Len(payload.userIds) >= PresenceBatchMin
  /\ Len(payload.userIds) < PresenceBatchMax

\* presenceBatchSchema.safeParse(payload).success
presenceBatchSchema(payload) ==
  /\ Has(payload, "userIds")
  /\ \A i \in 1..Len(payload.userIds) : IsUuid(payload.userIds[i])
  /\ Len(payload.userIds) >= PresenceBatchMin
  /\ Len(payload.userIds) <= PresenceBatchMax

\* A conversation schema that takes any string as conversationId
conversationSchema_anyId(payload) == Has(payload, "conversationId")

\* conversationSchema.safeParse(payload).success
conversationSchema(payload) ==
  Has(payload, "conversationId") /\ IsUuid(payload.conversationId)

\* deleteMessageSchema.safeParse(payload).success
deleteMessageSchema(payload) ==
  Has(payload, "messageId") /\ IsUuid(payload.messageId)

\* [...new Set(ids)]: the distinct ids in the order of their first occurrence
\* (a list without repetition is returned as it is).
UniqueIds(ids) ==
  LET IsFirst(i) == \A j \in 1..(i - 1) : ids[j] /= ids[i]
      Pick(firsts) == [k \in 1..Len(firsts) |-> ids[firsts[k]]]
  IN IF Cardinality({ids[i] : i \in 1..Len(ids)}) = Len(ids)
     THEN ids
     ELSE Pick(SelectSeq([i \in 1..Len(ids) |-> i], IsFirst))

-----------------------------------------------------------------------------
(* The store, src/sql/001_init.sql:113-142 *)

ensureConversationAccess_always(conversationId, userId) == TRUE

\* An access guard that trusts the rooms the user's connections are in
ensureConversationAccess_fromRooms(conversationId, userId) ==
  \E s \in SocketIds :
    /\ sockets[s].userId = userId
    /\ <<s, conversationRoom(conversationId)>> \in rooms

\* SELECT 1 FROM conversation_participants WHERE conversation_id=$1 AND user_id=$2
ensureConversationAccess(conversationId, userId) ==
  <<conversationId, userId>> \in DOMAIN conversation_participants

RECURSIVE Ascending(_)
Ascending(S) ==
  IF S = {} THEN << >>
  ELSE LET m == CHOOSE x \in S : \A y \in S : x <= y
       IN <<m>> \o Ascending(S \ {m})

\* SELECT conversation_id FROM conversation_participants WHERE user_id=$1
ConversationIdsOf(userId) ==
  Ascending({c \in Conversations : <<c, userId>> \in DOMAIN conversation_participants})

\* No handshake of the socket has been recorded
NoHandshake == [none |-> TRUE]

\* The tokens a client presents: one that fails verification, ones that
\* verify to a string payload, to an object without userId, to user 1 or 2
Tokens == {"bad", "str", "nouser", "u1", "u2"}

IdleTask ==
  [pc |-> "idle", ev |-> "", sock |-> 0, userId |-> 0, payload |-> NoAck,
   data |-> NoAck, existing |-> NoAck, nextVersion |-> 0, message |-> NoAck,
   ack |-> NoAck, cb |-> TRUE]

NoCall ==
  [fn |-> "none", userId |-> 0, socketId |-> 0, ret |-> FALSE,
   before |-> << >>, prevFn |-> "none", prevUserId |-> 0, prevSocketId |-> 0,
   prevBefore |-> << >>]

\* A text column that is NULL
NoText == << >>

\* A row of table listings (001_init.sql:58-80), of which the model keeps the
\* owner, the status, three of the fields an owner edits and the review columns
ListingRow(ownerId, status) ==
  [owner_user_id |-> ownerId, status |-> status, title |-> <<"r", "o", "o", "m", "s">>,
   latitude |-> NULL, longitude |-> NULL, review_note |-> NoText,
   reviewed_by_admin_id |-> NULL, updated_at |-> StartClock - 1]

\* A row of table conversations (001_init.sql:104-111)
ConversationRow(listingId, userId, status) ==
  [listing_id |-> listingId, created_by_user_id |-> userId, status |-> status]

\* The state after initChatSocket(httpServer): no connection, an empty registry,
\* and a store that holds the conversations `convs` (about listing 1, opened
\* by user 2), some of their participant rows
\* and the message rows `rows`.
InitWith(rows, convs) ==
  /\ onlineSocketsByUser = << >>
  /\ lastCall = NoCall
  /\ sockets = [s \in SocketIds |-> [state |-> "new", userId |-> 0]]
  /\ rooms = {}
  /\ resync = [s \in SocketIds |-> "none"]
  /\ presenceTasks = {}
  /\ presenceCalls = [u \in Users |-> << >>]
  /\ \E P \in SUBSET (convs \X Users) :
       conversation_participants = [p \in P |-> NULL]
  /\ conversations = [c \in convs |-> ConversationRow(1, 2, "OPEN")]
  /\ listings = [l \in {1, 2} |->
                   ListingRow(1, IF l = 1 THEN "DRAFT" ELSE "DELETED")]
  /\ messages = rows
  /\ message_edits = {}
  /\ clock = StartClock
  /\ tasks = [t \in Tasks |-> IdleTask]
  /\ broadcasts = EmptyBag
  /\ handshake = [s \in SocketIds |-> NoHandshake]

\* The store holds no message yet
Init == InitWith(<< >>, Conversations)

\* The same, with participant rows of the first conversation only
InitOne == InitWith(<< >>, {1})

\* The same, with both users participants of the first conversation
InitBoth == InitOne /\ DOMAIN conversation_participants = {1} \X Users

\* The same, with no participant row at all
InitBare == InitWith(<< >>, {})

\* The message rows the store may hold from before the start: one message of
\* the first user (the user ids are interchangeable), never edited, deleted or
\* not; its sender may have lost the participant row since.
SeedRows ==
  { << [id |-> 1, conversation_id |-> c, sender_user_id |-> 1, body |-> <<"a">>,
        created_at |-> StartClock - 1, edited_at |-> NULL, deleted_at |-> d] >> :
      c \in {1}, d \in {NULL, StartClock - 1} }

InitSeeded == \E rows \in SeedRows : InitWith(rows, {1})

-----------------------------------------------------------------------------
(* Direct calls of the registry functions, with any arguments *)

Called(fn, userId, socketId, r) ==
  /\ onlineSocketsByUser' = r.map
  /\ lastCall' = [fn |-> fn, userId |-> userId, socketId |-> socketId,
                  ret |-> r.ret, before |-> onlineSocketsByUser,
                  prevFn |-> lastCall.fn, prevUserId |-> lastCall.userId,
                  prevSocketId |-> lastCall.socketId,
                  prevBefore |-> lastCall.before]
  /\ UNCHANGED << sockets, rooms, resync, presenceTasks, presenceCalls,
                  conversations, listings, conversation_participants, messages, message_edits, clock,
                  tasks, broadcasts, handshake >>

CallAddOnlineSocket(userId, socketId) ==
  Called("add", userId, socketId,
         addOnlineSocket(onlineSocketsByUser, userId, socketId))

CallRemoveOnlineSocket(userId, socketId) ==
  Called("remove", userId, socketId,
         removeOnlineSocket(onlineSocketsByUser, userId, socketId))

NextRegistry ==
  \E userId \in Users, socketId \in SocketIds :
    \/ CallAddOnlineSocket(userId, socketId)
    \/ CallRemoveOnlineSocket(userId, socketId)

SpecRegistry == InitBare /\ [][NextRegistry]_vars

-----------------------------------------------------------------------------
(* The connection lifecycle, chat.socket.js:112-146 and 177-201 *)

\* io.to(room).emit(event, payload)
Emit(event, room, payload) == [event |-> event, room |-> room, payload |-> payload]

\* One presence:update per row (chat.socket.js:143-145)
PresenceUpdates(conversationIds, payload) ==
  SetToBag({Emit("presence:update", conversationRoom(conversationIds[i]), payload) :
              i \in 1..Len(conversationIds)})

\* emitPresenceForUser(io, userId, isOnline) is called: its store query is pending
CallEmitPresence(doCall, userId, isOnline) ==
  IF doCall
  THEN /\ presenceCalls' = [presenceCalls EXCEPT ![userId] = Append(@, isOnline)]
       /\ presenceTasks' = presenceTasks \cup
            {[userId |-> userId, isOnline |-> isOnline,
              n |-> Len(presenceCalls[userId]) + 1]}
  ELSE UNCHANGED << presenceCalls, presenceTasks >>

\* What a client can put in handshake.auth.token or in the authorization
\* header: nothing, a value that is not a string, or a string, which is the
\* text `token` with or without the prefix "Bearer ".
HandshakeValues ==
  {[kind |-> "absent", bearer |-> FALSE, token |-> ""],
   [kind |-> "other", bearer |-> FALSE, token |-> ""]}
    \cup [kind : {"string"}, bearer : BOOLEAN, token : Tokens \cup {""}]

\* normalizeToken: null for a falsy value or one that is not a string, else
\* the string without a leading "Bearer " (which can leave the empty string)
normalizeToken(value) ==
  IF value.kind /= "string" \/ (~value.bearer /\ value.token = "")
  THEN "null"
  ELSE value.token

\* tokenFromHandshake: auth.token when it normalizes to a non-empty string,
\* else the authorization header, else null
tokenFromHandshake(hs) ==
  LET authToken == normalizeToken(hs.auth)
      headerToken == normalizeToken(hs.header)
  IN IF authToken \notin {"null", ""} THEN authToken
     ELSE IF headerToken \notin {"null", ""} THEN headerToken
     ELSE "null"

\* jwt.verify(token, secret): throws for a token that is malformed, expired or
\* signed with another key, else returns the payload, which is a string or
\* an object; userId 0 is an object without a (truthy) userId
jwtVerify(token) ==
  CASE token = "str" -> [throws |-> FALSE, object |-> FALSE, userId |-> 0]
    [] token = "nouser" -> [throws |-> FALSE, object |-> TRUE, userId |-> 0]
    [] token = "u1" -> [throws |-> FALSE, object |-> TRUE, userId |-> 1]
    [] token = "u2" -> [throws |-> FALSE, object |-> TRUE, userId |-> 2]
    [] OTHER -> [throws |-> TRUE, object |-> FALSE, userId |-> 0]

\* The handshake middleware with the payload check left out
authenticate_anyPayload(hs) ==
  LET token == tokenFromHandshake(hs)
      decoded == jwtVerify(token)
  IN IF token = "null" THEN [error |-> "Missing token", userId |-> 0]
     ELSE IF decoded.throws THEN [error |-> "Invalid token", userId |-> 0]
     ELSE [error |-> "null", userId |-> decoded.userId]

\* The body of the io.use middleware: next(new Error(..)) or next() with
\* socket.data.user.userId set
authenticate(hs) ==
  LET token == tokenFromHandshake(hs)
      decoded == jwtVerify(token)
  IN IF token = "null" THEN [error |-> "Missing token", userId |-> 0]
     ELSE IF decoded.throws THEN [error |-> "Invalid token", userId |-> 0]
     ELSE IF ~decoded.object \/ decoded.userId = 0
     THEN [error |-> "Invalid token payload", userId |-> 0]
     ELSE [error |-> "null", userId |-> decoded.userId]

\* io.use: the middleware runs on a connection attempt; a rejected attempt
\* never reaches the "connection" listener
Use(s, hs) ==
  /\ sockets[s].state = "new"
  /\ \A other \in SocketIds : other < s => sockets[other].state /= "new"
  /\ handshake' = [handshake EXCEPT ![s] = hs]
  /\ LET r == authenticate(hs)
     IN sockets' = [sockets EXCEPT ![s] =
          IF r.error = "null"
          THEN [state |-> "accepted", userId |-> r.userId]
          ELSE [state |-> "rejected", userId |-> 0, error |-> r.error]]
  /\ UNCHANGED << onlineSocketsByUser, lastCall, rooms, resync, presenceTasks,
                  presenceCalls, conversations, listings, conversation_participants, messages,
                  message_edits, clock, tasks, broadcasts >>

\* io.on("connection"): a socket that passed the handshake as `userId` (a
\* "new" socket is one whose handshake is taken as passed).  The
\* ids are fresh and opaque: the connections take them in ascending order.
Connection(s, userId) ==
  /\ \/ sockets[s].state = "new"
     \/ sockets[s] = [state |-> "accepted", userId |-> userId]
  /\ \A other \in SocketIds : other < s => sockets[other].state /= "new"
  /\ LET r == addOnlineSocket(onlineSocketsByUser, userId, s)
     IN /\ onlineSocketsByUser' = r.map
        /\ CallEmitPresence(r.ret, userId, TRUE)
  /\ sockets' = [sockets EXCEPT ![s] = [state |-> "ready", userId |-> userId]]
  /\ rooms' = rooms \cup {<<s, userRoom(userId)>>}
  /\ resync' = [resync EXCEPT ![s] = "pending"]
  /\ broadcasts' = broadcasts (+) SetToBag(
       {Emit("chat:ready", <<"socket", s>>, [userId |-> userId])})
  /\ UNCHANGED << lastCall, handshake, conversations, listings, conversation_participants, messages,
                  message_edits, clock, tasks >>

\* socket.on("disconnect"): socket.io has taken the socket out of its rooms
Disconnect(s) ==
  /\ sockets[s].state = "ready"
  /\ LET userId == sockets[s].userId
         r == removeOnlineSocket(onlineSocketsByUser, userId, s)
     IN /\ onlineSocketsByUser' = r.map
        /\ CallEmitPresence(r.ret, userId, FALSE)
  /\ sockets' = [sockets EXCEPT ![s].state = "closed"]
  /\ rooms' = {m \in rooms : m[1] /= s}
  /\ UNCHANGED << lastCall, handshake, resync, conversations, listings, conversation_participants, messages,
                  message_edits, clock, tasks, broadcasts >>

\* The "disconnect" listener runs once more for a connection that is closed:
\* the call of removeOnlineSocket it makes is recorded in lastCall
DisconnectAgain(s) ==
  /\ sockets[s].state = "closed"
  /\ LET userId == sockets[s].userId
         r == removeOnlineSocket(onlineSocketsByUser, userId, s)
     IN /\ onlineSocketsByUser' = r.map
        /\ CallEmitPresence(r.ret, userId, FALSE)
        /\ lastCall' = [NoCall EXCEPT !.fn = "remove", !.userId = userId,
                                      !.socketId = s, !.ret = r.ret,
                                      !.before = onlineSocketsByUser]
  /\ UNCHANGED << sockets, rooms, handshake, resync, conversations, listings,
                  conversation_participants, messages, message_edits, clock,
                  tasks, broadcasts >>

\* joinAllUserConversationRooms(socket, userId): its store query answers
JoinAllUserConversationRooms(s) ==
  /\ resync[s] = "pending"
  /\ LET conversationIds == ConversationIdsOf(sockets[s].userId)
     IN rooms' = rooms \cup
          {<<s, conversationRoom(conversationIds[i])>> : i \in 1..Len(conversationIds)}
  /\ resync' = [resync EXCEPT ![s] = "done"]
  /\ UNCHANGED << onlineSocketsByUser, lastCall, handshake, sockets, presenceTasks,
                  presenceCalls, conversations, listings, conversation_participants, messages,
                  message_edits, clock, tasks, broadcasts >>

\* A failed resync that takes the connection down with it
JoinAllUserConversationRoomsFails_fatal(s) ==
  /\ resync[s] = "pending"
  /\ resync' = [resync EXCEPT ![s] = "failed"]
  /\ sockets' = [sockets EXCEPT ![s].state = "closed"]
  /\ rooms' = {m \in rooms : m[1] /= s}
  /\ UNCHANGED << onlineSocketsByUser, lastCall, handshake, presenceTasks,
                  presenceCalls, conversations, listings, conversation_participants, messages,
                  message_edits, clock, tasks, broadcasts >>

\* joinAllUserConversationRooms(socket, userId): its store query rejects; the
\* .catch of the connection listener logs the error (chat.socket.js:182-184)
JoinAllUserConversationRoomsFails(s) ==
  /\ resync[s] = "pending"
  /\ resync' = [resync EXCEPT ![s] = "failed"]
  /\ UNCHANGED << onlineSocketsByUser, lastCall, handshake, sockets, rooms,
                  presenceTasks, presenceCalls, conversations, listings,
                  conversation_participants, messages, message_edits, clock,
                  tasks, broadcasts >>

\* emitPresenceForUser(io, userId, isOnline): its store query answers
EmitPresenceForUser(task) ==
  /\ task \in presenceTasks
  /\ presenceTasks' = presenceTasks \ {task}
  /\ broadcasts' = broadcasts (+)
       PresenceUpdates(ConversationIdsOf(task.userId),
                       [userId |-> task.userId, isOnline |-> task.isOnline])
  /\ UNCHANGED << onlineSocketsByUser, lastCall, handshake, sockets, rooms, resync,
                  presenceCalls, conversations, listings, conversation_participants, messages,
                  message_edits, clock, tasks >>

\* emitPresenceForUser(io, userId, isOnline): its store query rejects; the
\* .catch of the caller logs the error (chat.socket.js:187-189, 197-199)
EmitPresenceForUserFails(task) ==
  /\ task \in presenceTasks
  /\ presenceTasks' = presenceTasks \ {task}
  /\ UNCHANGED << onlineSocketsByUser, lastCall, handshake, sockets, rooms, resync,
                  presenceCalls, conversations, listings, conversation_participants, messages,
                  message_edits, clock, tasks, broadcasts >>

\* A participant row is removed by a flow outside the chat module (rows of
\* conversation_participants are deleted with their conversation or user).
RevokeParticipant(conversationId, userId) ==
  /\ <<conversationId, userId>> \in DOMAIN conversation_participants
  /\ conversation_participants' =
       [p \in DOMAIN conversation_participants \ {<<conversationId, userId>>} |->
          conversation_participants[p]]
  /\ UNCHANGED << onlineSocketsByUser, lastCall, handshake, sockets, rooms, resync,
                  presenceTasks, presenceCalls, conversations, listings, messages,
                  message_edits, clock, tasks, broadcasts >>

-----------------------------------------------------------------------------
(* Inbound events.  A handler invocation takes the first free slot of       *)
(* `tasks`; the slot keeps the acknowledgment until the next invocation     *)
(* takes it.                                                                *)

Free(t) == tasks[t].pc \in {"idle", "done"}

Takes(t) == Free(t) /\ \A u \in Tasks : Free(u) => t <= u

\* A handler that takes the acting user from the payload when it names one
Invoke_claimed(s, ev, payload, ack) ==
  [IdleTask EXCEPT !.ev = ev, !.sock = s,
                   !.userId = IF "userId" \in DOMAIN payload
                              THEN payload.userId ELSE sockets[s].userId,
                   !.payload = payload, !.cb = ack]

\* The handler of event `ev` starts on socket s with `payload`; its userId is
\* the constant bound by the connection listener (chat.socket.js:178)
Invoke(s, ev, payload, ack) ==
  [IdleTask EXCEPT !.ev = ev, !.sock = s, !.userId = sockets[s].userId,
                   !.payload = payload, !.cb = ack]

\* safeAck(ack, payload) and return: the acknowledgment is sent when the
\* client gave a callback (typeof ack === "function"); the locals of the
\* handler are gone
Acked(task, ack) ==
  [IdleTask EXCEPT !.pc = "done", !.ev = task.ev, !.sock = task.sock,
                   !.userId = task.userId, !.payload = task.payload,
                   !.cb = task.cb, !.ack = IF task.cb THEN ack ELSE NoAck]

\* socket.on("presence:batch")
PresenceBatch(t, s, payload, ack) ==
  /\ Takes(t)
  /\ sockets[s].state = "ready"
  /\ LET task == Invoke(s, "presence:batch", payload, ack)
     IN IF ~presenceBatchSchema(payload)
        THEN tasks' = [tasks EXCEPT ![t] = Acked(task, socketError("Invalid payload", "flatten"))]
        ELSE \E uniqueIds \in {UniqueIds(payload.userIds)} :
               LET items == [i \in 1..Len(uniqueIds) |->
                               [userId |-> uniqueIds[i],
                                isOnline |-> isUserOnline(onlineSocketsByUser, uniqueIds[i])]]
               IN tasks' = [tasks EXCEPT ![t] = Acked(task, socketOk([items |-> items]))]
  /\ UNCHANGED << onlineSocketsByUser, lastCall, handshake, sockets, rooms, resync,
                  presenceTasks, presenceCalls, conversations, listings, conversation_participants,
                  messages, message_edits, clock, broadcasts >>

\* The userIds lists a client sends
BatchInputs ==
  { << >>, <<1>>, <<2, 1, 2>>, <<3>>, <<1, 0>>,
    [i \in 1..PresenceBatchMax |-> i],
    [i \in 1..PresenceBatchMax |-> 1 + (i % 2)],
    [i \in 1..(PresenceBatchMax + 1) |-> i],
    [i \in 1..(PresenceBatchMax + 1) |-> 1] }

NextPresence ==
  \/ \E s \in SocketIds, userId \in Users : Connection(s, userId)
  \/ \E s \in SocketIds : Disconnect(s)
  \/ \E task \in presenceTasks : EmitPresenceForUser(task)
  \/ \E c \in Conversations, userId \in Users : RevokeParticipant(c, userId)

SpecPresence == Init /\ [][NextPresence]_vars

NextBatch ==
  \/ \E s \in SocketIds, userId \in Users : Connection(s, userId)
  \/ \E s \in SocketIds : Disconnect(s)
  \/ \E t \in Tasks, s \in SocketIds, userIds \in BatchInputs :
       PresenceBatch(t, s, [userIds |-> userIds], TRUE)

SpecBatch == InitBare /\ [][NextBatch]_vars

-----------------------------------------------------------------------------
(* Message bodies and their schemas, chat.socket.js:10-17, admin.routes.js:575-577 *)

BodyMin == 1
BodyMax == 3000

\* title: z.string().min(5).max(80) and note: z.string().min(2).max(300)
TitleMin == 5
TitleMax == 80
NoteMin == 2
NoteMax == 300

IsSpace(ch) == ch = " "

RECURSIVE TrimStart(_)
TrimStart(str) ==
  IF str /= << >> /\ IsSpace(Head(str)) THEN TrimStart(Tail(str)) ELSE str

RECURSIVE TrimEnd(_)
TrimEnd(str) ==
  IF str /= << >> /\ IsSpace(str[Len(str)])
  THEN TrimEnd(SubSeq(str, 1, Len(str) - 1)) ELSE str

\* String.prototype.trim()
Trim(str) == TrimEnd(TrimStart(str))

\* z.string().trim().min(1).max(3000): the length checks see the trimmed string
BodyOk(body) == Len(Trim(body)) >= BodyMin /\ Len(Trim(body)) <= BodyMax

\* sendMessageSchema.safeParse(payload).success
sendMessageSchema(payload) ==
  /\ Has(payload, "conversationId") /\ IsUuid(payload.conversationId)
  /\ Has(payload, "body") /\ BodyOk(payload.body)

\* editMessageSchema.safeParse(payload).success
editMessageSchema(payload) ==
  /\ Has(payload, "messageId") /\ IsUuid(payload.messageId)
  /\ Has(payload, "body") /\ BodyOk(payload.body)

\* editSchema.safeParse(req.body).success of PATCH /messages/:id: z.string().min(1).max(3000)
editSchema(reqBody) == Len(reqBody.body) >= BodyMin /\ Len(reqBody.body) <= BodyMax

\* The bodies a client sends
RawBodies == { <<"a">>, <<" ", "b", " ">>, <<" ">> }

\* SELECT ... FROM messages WHERE id=$1: the row, or NoRow
NoRow == [none |-> TRUE]

SelectMessage(messageId) ==
  IF messageId \in 1..Len(messages) THEN messages[messageId] ELSE NoRow

\* SELECT COALESCE(MAX(version), 1): a history that starts at version 2
MaxVersion_fromOne(messageId) ==
  LET versions == {e.version : e \in {x \in message_edits : x.message_id = messageId}}
  IN IF versions = {} THEN 1 ELSE CHOOSE v \in versions : \A w \in versions : w <= v

\* SELECT COALESCE(MAX(version), 0) FROM message_edits WHERE message_id=$1
MaxVersion(messageId) ==
  LET versions == {e.version : e \in {x \in message_edits : x.message_id = messageId}}
  IN IF versions = {} THEN 0 ELSE CHOOSE v \in versions : \A w \in versions : w <= v

\* A message_edits table without the uniqueness constraint
EditKeyTaken_never(messageId, version) == FALSE

\* UNIQUE(message_id, version) of message_edits
EditKeyTaken(messageId, version) ==
  \E e \in message_edits : e.message_id = messageId /\ e.version = version

\* An UPDATE of last_read_at that matches no row
MarkRead_noRow(conversationId, userId) == conversation_participants

\* UPDATE conversation_participants SET last_read_at=now() WHERE conversation_id=$1 AND user_id=$2
MarkRead(conversationId, userId) ==
  [p \in DOMAIN conversation_participants |->
     IF p = <<conversationId, userId>> THEN clock ELSE conversation_participants[p]]

Step(t, task) == tasks' = [tasks EXCEPT ![t] = task]

At(t, ev, pc) == tasks[t].ev = ev /\ tasks[t].pc = pc

\* The writes a started handler may still make are bounded by the clock
MayStart(t, s) == Takes(t) /\ sockets[s].state = "ready" /\ clock < MaxClock

StoreUnchanged == UNCHANGED << conversations, listings, conversation_participants, messages, message_edits, clock >>

ConnectionsUnchanged ==
  UNCHANGED << onlineSocketsByUser, lastCall, handshake, sockets, resync, presenceTasks, presenceCalls >>

-----------------------------------------------------------------------------
(* socket.on("conversation:join"), chat.socket.js:222-238 *)

ConversationJoin(t, s, payload, ack) ==
  /\ MayStart(t, s)
  /\ LET task == Invoke(s, "conversation:join", payload, ack)
     IN IF ~conversationSchema(payload)
        THEN Step(t, Acked(task, socketError("Invalid payload", "flatten")))
        ELSE Step(t, [task EXCEPT !.pc = "access", !.data = payload])
  /\ StoreUnchanged /\ ConnectionsUnchanged /\ UNCHANGED << rooms, broadcasts >>

ConversationJoinAccess(t) ==
  /\ At(t, "conversation:join", "access")
  /\ LET task == tasks[t]
         conversationId == task.data.conversationId
     IN IF ~ensureConversationAccess(conversationId, task.userId)
        THEN /\ Step(t, Acked(task, socketError("No access to conversation", "null")))
             /\ UNCHANGED rooms
        ELSE /\ rooms' = rooms \cup {<<task.sock, conversationRoom(conversationId)>>}
             /\ Step(t, Acked(task, socketOk([conversationId |-> conversationId])))
  /\ StoreUnchanged /\ ConnectionsUnchanged /\ UNCHANGED broadcasts

\* A leave that asks the access guard first
ConversationLeave_guarded(t, s, payload, ack) ==
  /\ MayStart(t, s)
  /\ LET task == Invoke(s, "conversation:leave", payload, ack)
     IN IF ~conversationSchema(payload)
        THEN /\ Step(t, Acked(task, socketError("Invalid payload", "flatten")))
             /\ UNCHANGED rooms
        ELSE IF ~ensureConversationAccess(payload.conversationId, sockets[s].userId)
        THEN /\ Step(t, Acked(task, socketError("No access to conversation", "null")))
             /\ UNCHANGED rooms
        ELSE /\ rooms' = rooms \ {<<s, conversationRoom(payload.conversationId)>>}
             /\ Step(t, Acked(task, socketOk([conversationId |-> payload.conversationId])))
  /\ StoreUnchanged /\ ConnectionsUnchanged /\ UNCHANGED broadcasts

\* socket.on("conversation:leave"), chat.socket.js:240-252
ConversationLeave(t, s, payload, ack) ==
  /\ MayStart(t, s)
  /\ LET task == Invoke(s, "conversation:leave", payload, ack)
     IN IF ~conversationSchema(payload)
        THEN /\ Step(t, Acked(task, socketError("Invalid payload", "flatten")))
             /\ UNCHANGED rooms
        ELSE /\ rooms' = rooms \ {<<s, conversationRoom(payload.conversationId)>>}
             /\ Step(t, Acked(task, socketOk([conversationId |-> payload.conversationId])))
  /\ StoreUnchanged /\ ConnectionsUnchanged /\ UNCHANGED broadcasts

-----------------------------------------------------------------------------
(* socket.on("message:send"), chat.socket.js:254-285 *)

MessageSend(t, s, payload, ack) ==
  /\ MayStart(t, s)
  /\ Len(messages) < MaxMessages
  /\ LET task == Invoke(s, "message:send", payload, ack)
     IN IF ~sendMessageSchema(payload)
        THEN Step(t, Acked(task, socketError("Invalid payload", "flatten")))
        ELSE Step(t, [task EXCEPT !.pc = "access",
                        !.data = [conversationId |-> payload.conversationId,
                                  body |-> Trim(payload.body)]])
  /\ StoreUnchanged /\ ConnectionsUnchanged /\ UNCHANGED << rooms, broadcasts >>

MessageSendAccess(t) ==
  /\ At(t, "message:send", "access")
  /\ LET task == tasks[t]
     IN IF ~ensureConversationAccess(task.data.conversationId, task.userId)
        THEN Step(t, Acked(task, socketError("No access to conversation", "null")))
        ELSE Step(t, [task EXCEPT !.pc = "insert"])
  /\ StoreUnchanged /\ ConnectionsUnchanged /\ UNCHANGED << rooms, broadcasts >>

\* INSERT INTO messages(conversation_id, sender_user_id, body) ... RETURNING ...
MessageSendInsert(t) ==
  /\ At(t, "message:send", "insert")
  /\ Len(messages) < MaxMessages
  /\ LET task == tasks[t]
         row == [id |-> Len(messages) + 1,
                 conversation_id |-> task.data.conversationId,
                 sender_user_id |-> task.userId,
                 body |-> task.data.body,
                 created_at |-> clock, edited_at |-> NULL, deleted_at |-> NULL]
     IN /\ messages' = Append(messages, row)
        /\ Step(t, [task EXCEPT !.pc = "read", !.message = row])
  /\ clock' = clock + 1
  /\ ConnectionsUnchanged
  /\ UNCHANGED << conversations, listings, conversation_participants, message_edits, rooms, broadcasts >>

\* UPDATE conversation_participants SET last_read_at=now(), then the broadcast and the ack
MessageSendRead(t) ==
  /\ At(t, "message:send", "read")
  /\ LET task == tasks[t]
     IN /\ conversation_participants' = MarkRead(task.data.conversationId, task.userId)
        /\ broadcasts' = broadcasts (+) SetToBag(
             {Emit("message:new", conversationRoom(task.data.conversationId),
                   [message |-> task.message])})
        /\ Step(t, Acked(task, socketOk([message |-> task.message])))
  /\ clock' = clock + 1
  /\ ConnectionsUnchanged
  /\ UNCHANGED << conversations, listings, messages, message_edits, rooms >>

\* The message of the error pool.query rejects with when the store cannot be
\* reached
StoreDown == "Connection terminated unexpectedly"

\* err.message of a rejected pool.query: the store's text, or nothing
ErrorMessages == {StoreDown, ""}

\* err.message || fallback
OrElse(message, fallback) == IF message = "" THEN fallback ELSE message

\* The pool.query the handler awaits rejects: the catch acknowledges
\* socketError(err.message || "Failed to send message")
MessageSendFails(t) ==
  /\ tasks[t].ev = "message:send" /\ tasks[t].pc \in {"access", "insert", "read"}
  /\ \E message \in ErrorMessages :
       Step(t, Acked(tasks[t],
                     socketError(OrElse(message, "Failed to send message"), "null")))
  /\ StoreUnchanged /\ ConnectionsUnchanged /\ UNCHANGED << rooms, broadcasts >>

\* The pool.query the handler awaits never settles: the pool is created with a
\* connection string only (db.js:8), so no timeout ends the call and the
\* handler stays at its await
MessageSendHangs(t) ==
  /\ tasks[t].ev = "message:send" /\ tasks[t].pc \in {"access", "insert", "read"}
  /\ Step(t, [tasks[t] EXCEPT !.pc = "hung"])
  /\ StoreUnchanged /\ ConnectionsUnchanged /\ UNCHANGED << rooms, broadcasts >>

-----------------------------------------------------------------------------
(* socket.on("message:edit"), chat.socket.js:287-340 *)

MessageEdit(t, s, payload, ack) ==
  /\ MayStart(t, s)
  /\ LET task == Invoke(s, "message:edit", payload, ack)
     IN IF ~editMessageSchema(payload)
        THEN Step(t, Acked(task, socketError("Invalid payload", "flatten")))
        ELSE Step(t, [task EXCEPT !.pc = "load",
                        !.data = [messageId |-> payload.messageId,
                                  body |-> Trim(payload.body)]])
  /\ StoreUnchanged /\ ConnectionsUnchanged /\ UNCHANGED << rooms, broadcasts >>

EditChecks_senderFirst(existing, userId) ==
  IF existing = NoRow THEN "Message not found"
  ELSE IF existing.sender_user_id /= userId THEN "Not your message"
  ELSE IF existing.deleted_at /= NULL THEN "Message is deleted"
  ELSE ""

\* The checks on the loaded row, chat.socket.js:303-307: the error, or "" when they pass
EditChecks(existing, userId) ==
  IF existing = NoRow THEN "Message not found"
  ELSE IF existing.deleted_at /= NULL THEN "Message is deleted"
  ELSE IF existing.sender_user_id /= userId THEN "Not your message"
  ELSE ""

\* A handler that refuses an edit whose body is the one the message has
MessageEditLoad_rejectsSame(t) ==
  /\ At(t, "message:edit", "load")
  /\ LET task == tasks[t]
         existing == SelectMessage(task.data.messageId)
         error == EditChecks(existing, task.userId)
     IN IF error /= ""
        THEN Step(t, Acked(task, socketError(error, "null")))
        ELSE IF existing.body = task.data.body
        THEN Step(t, Acked(task, socketError("Nothing to change", "null")))
        ELSE Step(t, [task EXCEPT !.pc = "access", !.existing = existing])
  /\ StoreUnchanged /\ ConnectionsUnchanged /\ UNCHANGED << rooms, broadcasts >>

MessageEditLoad(t) ==
  /\ At(t, "message:edit", "load")
  /\ LET task == tasks[t]
         existing == SelectMessage(task.data.messageId)
         error == EditChecks(existing, task.userId)
     IN IF error /= ""
        THEN Step(t, Acked(task, socketError(error, "null")))
        ELSE Step(t, [task EXCEPT !.pc = "access", !.existing = existing])
  /\ StoreUnchanged /\ ConnectionsUnchanged /\ UNCHANGED << rooms, broadcasts >>

MessageEditAccess(t) ==
  /\ At(t, "message:edit", "access")
  /\ LET task == tasks[t]
     IN IF ~ensureConversationAccess(task.existing.conversation_id, task.userId)
        THEN Step(t, Acked(task, socketError("No access to conversation", "null")))
        ELSE Step(t, [task EXCEPT !.pc = "version"])
  /\ StoreUnchanged /\ ConnectionsUnchanged /\ UNCHANGED << rooms, broadcasts >>

HistoryRow_newBody(task) ==
  [message_id |-> task.data.messageId, version |-> task.nextVersion,
   body |-> task.data.body, edited_by_user_id |-> task.userId, edited_at |-> clock]

\* The row of INSERT INTO message_edits(message_id, version, body, edited_by_user_id)
\* VALUES($1,$2,$3,$4) with [messageId, nextVersion, existing.body, userId]
HistoryRow(task) ==
  [message_id |-> task.data.messageId, version |-> task.nextVersion,
   body |-> task.existing.body, edited_by_user_id |-> task.userId, edited_at |-> clock]

MessageEditVersion(t) ==
  /\ At(t, "message:edit", "version")
  /\ Step(t, [tasks[t] EXCEPT !.pc = "history",
                !.nextVersion = MaxVersion(tasks[t].data.messageId) + 1])
  /\ StoreUnchanged /\ ConnectionsUnchanged /\ UNCHANGED << rooms, broadcasts >>

\* INSERT INTO message_edits(message_id, version, body, edited_by_user_id): the
\* statement throws when (message_id, version) is taken, and the catch acknowledges
\* the store's message.
MessageEditHistory(t) ==
  /\ At(t, "message:edit", "history")
  /\ LET task == tasks[t]
     IN IF EditKeyTaken(task.data.messageId, task.nextVersion)
        THEN /\ Step(t, Acked(task, socketError("duplicate key value violates unique constraint", "null")))
             /\ UNCHANGED << message_edits, clock >>
        ELSE /\ message_edits' = message_edits \cup {HistoryRow(task)}
             /\ clock' = clock + 1
             /\ Step(t, [task EXCEPT !.pc = "update"])
  /\ ConnectionsUnchanged
  /\ UNCHANGED << conversations, listings, conversation_participants, messages, rooms, broadcasts >>

\* UPDATE messages SET body=$2, edited_at=now() WHERE id=$1 RETURNING ...
MessageEditUpdate(t) ==
  /\ At(t, "message:edit", "update")
  /\ LET task == tasks[t]
         message == [messages[task.data.messageId] EXCEPT
                       !.body = task.data.body, !.edited_at = clock]
     IN /\ messages' = [messages EXCEPT ![task.data.messageId] = message]
        /\ broadcasts' = broadcasts (+) SetToBag(
             {Emit("message:updated", conversationRoom(message.conversation_id),
                   [message |-> message])})
        /\ Step(t, Acked(task, socketOk([message |-> message])))
  /\ clock' = clock + 1
  /\ ConnectionsUnchanged
  /\ UNCHANGED << conversations, listings, conversation_participants, message_edits, rooms >>

\* The pool.query the handler awaits rejects: the catch acknowledges
\* socketError(err.message || "Failed to edit message")
MessageEditFails(t) ==
  /\ tasks[t].ev = "message:edit"
  /\ tasks[t].pc \in {"load", "access", "version", "history", "update"}
  /\ \E message \in ErrorMessages :
       Step(t, Acked(tasks[t],
                     socketError(OrElse(message, "Failed to edit message"), "null")))
  /\ StoreUnchanged /\ ConnectionsUnchanged /\ UNCHANGED << rooms, broadcasts >>

-----------------------------------------------------------------------------
(* socket.on("message:delete"), chat.socket.js:342-387 *)

MessageDelete(t, s, payload, ack) ==
  /\ MayStart(t, s)
  /\ LET task == Invoke(s, "message:delete", payload, ack)
     IN IF ~deleteMessageSchema(payload)
        THEN Step(t, Acked(task, socketError("Invalid payload", "flatten")))
        ELSE Step(t, [task EXCEPT !.pc = "load", !.data = payload])
  /\ StoreUnchanged /\ ConnectionsUnchanged /\ UNCHANGED << rooms, broadcasts >>

DeleteChecks_noSenderCheck(existing, userId) ==
  IF existing = NoRow THEN "Message not found"
  ELSE IF existing.deleted_at /= NULL THEN "alreadyDeleted"
  ELSE ""

DeleteChecks_noDeletedCheck(existing, userId) ==
  IF existing = NoRow THEN "Message not found"
  ELSE IF existing.sender_user_id /= userId THEN "Not your message"
  ELSE ""

DeleteChecks_senderFirst(existing, userId) ==
  IF existing = NoRow THEN "Message not found"
  ELSE IF existing.sender_user_id /= userId THEN "Not your message"
  ELSE IF existing.deleted_at /= NULL THEN "alreadyDeleted"
  ELSE ""

\* The checks on the loaded row, chat.socket.js:358-362: the error,
\* "alreadyDeleted", or "" when they pass
DeleteChecks(existing, userId) ==
  IF existing = NoRow THEN "Message not found"
  ELSE IF existing.deleted_at /= NULL THEN "alreadyDeleted"
  ELSE IF existing.sender_user_id /= userId THEN "Not your message"
  ELSE ""

MessageDeleteLoad(t) ==
  /\ At(t, "message:delete", "load")
  /\ LET task == tasks[t]
         existing == SelectMessage(task.data.messageId)
         outcome == DeleteChecks(existing, task.userId)
     IN IF outcome = "alreadyDeleted"
        THEN Step(t, Acked(task, socketOk([messageId |-> task.data.messageId,
                                           alreadyDeleted |-> TRUE])))
        ELSE IF outcome /= ""
        THEN Step(t, Acked(task, socketError(outcome, "null")))
        ELSE Step(t, [task EXCEPT !.pc = "access", !.existing = existing])
  /\ StoreUnchanged /\ ConnectionsUnchanged /\ UNCHANGED << rooms, broadcasts >>

MessageDeleteAccess(t) ==
  /\ At(t, "message:delete", "access")
  /\ LET task == tasks[t]
     IN IF ~ensureConversationAccess(task.existing.conversation_id, task.userId)
        THEN Step(t, Acked(task, socketError("No access to conversation", "null")))
        ELSE Step(t, [task EXCEPT !.pc = "update"])
  /\ StoreUnchanged /\ ConnectionsUnchanged /\ UNCHANGED << rooms, broadcasts >>

\* UPDATE messages SET deleted_at=now() WHERE id=$1 RETURNING id, conversation_id, deleted_at
\* A delete that removes the row (DELETE FROM messages WHERE id=$1)
MessageDeleteUpdate_hard(t) ==
  /\ At(t, "message:delete", "update")
  /\ LET task == tasks[t]
         messageId == task.data.messageId
     IN /\ messages' = SubSeq(messages, 1, messageId - 1)
        /\ broadcasts' = broadcasts (+) SetToBag(
             {Emit("message:deleted", conversationRoom(messages[messageId].conversation_id),
                   [messageId |-> messageId,
                    conversationId |-> messages[messageId].conversation_id,
                    deletedAt |-> clock,
                    deletedByUserId |-> task.userId])})
        /\ Step(t, Acked(task, socketOk([messageId |-> messageId])))
  /\ clock' = clock + 1
  /\ ConnectionsUnchanged
  /\ UNCHANGED << conversations, listings, conversation_participants, message_edits, rooms >>

\* UPDATE messages SET deleted_at=now() WHERE id=$1 RETURNING id,
\* conversation_id, deleted_at, then the broadcast and the ack
MessageDeleteUpdate(t) ==
  /\ At(t, "message:delete", "update")
  /\ LET task == tasks[t]
         messageId == task.data.messageId
         message == [id |-> messageId,
                     conversation_id |-> messages[messageId].conversation_id,
                     deleted_at |-> clock]
     IN /\ messages' = [messages EXCEPT ![messageId].deleted_at = clock]
        /\ broadcasts' = broadcasts (+) SetToBag(
             {Emit("message:deleted", conversationRoom(message.conversation_id),
                   [messageId |-> message.id,
                    conversationId |-> message.conversation_id,
                    deletedAt |-> message.deleted_at,
                    deletedByUserId |-> task.userId])})
        /\ Step(t, Acked(task, socketOk([message |-> message])))
  /\ clock' = clock + 1
  /\ ConnectionsUnchanged
  /\ UNCHANGED << conversations, listings, conversation_participants, message_edits, rooms >>

-----------------------------------------------------------------------------
(* socket.on("conversation:read"), chat.socket.js:389-420 *)

ConversationRead(t, s, payload, ack) ==
  /\ MayStart(t, s)
  /\ LET task == Invoke(s, "conversation:read", payload, ack)
     IN IF ~conversationSchema(payload)
        THEN Step(t, Acked(task, socketError("Invalid payload", "flatten")))
        ELSE Step(t, [task EXCEPT !.pc = "access", !.data = payload])
  /\ StoreUnchanged /\ ConnectionsUnchanged /\ UNCHANGED << rooms, broadcasts >>

ConversationReadAccess(t) ==
  /\ At(t, "conversation:read", "access")
  /\ LET task == tasks[t]
     IN IF ~ensureConversationAccess(task.data.conversationId, task.userId)
        THEN Step(t, Acked(task, socketError("No access to conversation", "null")))
        ELSE Step(t, [task EXCEPT !.pc = "update"])
  /\ StoreUnchanged /\ ConnectionsUnchanged /\ UNCHANGED << rooms, broadcasts >>

\* UPDATE ... SET last_read_at=now() ... RETURNING last_read_at; readAt is null
\* when the row is gone
ConversationReadUpdate(t) ==
  /\ At(t, "conversation:read", "update")
  /\ LET task == tasks[t]
         conversationId == task.data.conversationId
         readAt == IF ensureConversationAccess(conversationId, task.userId)
                   THEN clock ELSE NULL
     IN /\ conversation_participants' = MarkRead(conversationId, task.userId)
        /\ broadcasts' = broadcasts (+) SetToBag(
             {Emit("conversation:read", conversationRoom(conversationId),
                   [conversationId |-> conversationId, userId |-> task.userId,
                    readAt |-> readAt])})
        /\ Step(t, Acked(task, socketOk([conversationId |-> conversationId,
                                         readAt |-> readAt])))
  /\ clock' = clock + 1
  /\ ConnectionsUnchanged
  /\ UNCHANGED << conversations, listings, messages, message_edits, rooms >>

-----------------------------------------------------------------------------
(* PATCH /messages/:id, admin.routes.js:579-633.  req.user.userId is the     *)
(* identity authRequired verified; an error passed to next() is answered 500 *)
(* with the error's message (server.js:63-66).                               *)

Reply(status, json) == [status |-> status, json |-> json]

\* A REST request of `userId` starts
Request(ev, userId, payload) ==
  [IdleTask EXCEPT !.ev = ev, !.userId = userId, !.payload = payload]

\* res.status(status).json(json)
Responded(task, status, json) == Acked(task, Reply(status, json))

MayRequest(t) == Takes(t) /\ clock < MaxClock

RestPatch(t, userId, messageId, reqBody) ==
  /\ MayRequest(t)
  /\ LET task == Request("PATCH /messages/:id", userId,
                         [messageId |-> messageId, body |-> reqBody.body])
     IN IF ~editSchema(reqBody)
        THEN Step(t, Responded(task, 400, [error |-> "flatten"]))
        ELSE Step(t, [task EXCEPT !.pc = "load",
                        !.data = [messageId |-> messageId, body |-> reqBody.body]])
  /\ StoreUnchanged /\ ConnectionsUnchanged /\ UNCHANGED << rooms, broadcasts >>

RestPatchLoad(t) ==
  /\ At(t, "PATCH /messages/:id", "load")
  /\ LET task == tasks[t]
         msg == SelectMessage(task.data.messageId)
     IN IF ~IsUuid(task.data.messageId)
        THEN Step(t, Responded(task, 500, [error |-> "invalid input syntax for type uuid"]))
        ELSE IF msg = NoRow
        THEN Step(t, Responded(task, 404, [error |-> "Message not found"]))
        ELSE IF msg.deleted_at /= NULL
        THEN Step(t, Responded(task, 400, [error |-> "Message is deleted"]))
        ELSE IF msg.sender_user_id /= task.userId
        THEN Step(t, Responded(task, 403, [error |-> "Not your message"]))
        ELSE Step(t, [task EXCEPT !.pc = "access", !.existing = msg])
  /\ StoreUnchanged /\ ConnectionsUnchanged /\ UNCHANGED << rooms, broadcasts >>

RestPatchAccess(t) ==
  /\ At(t, "PATCH /messages/:id", "access")
  /\ LET task == tasks[t]
     IN IF ~ensureConversationAccess(task.existing.conversation_id, task.userId)
        THEN Step(t, Responded(task, 403, [error |-> "No access to conversation"]))
        ELSE Step(t, [task EXCEPT !.pc = "version"])
  /\ StoreUnchanged /\ ConnectionsUnchanged /\ UNCHANGED << rooms, broadcasts >>

RestPatchVersion(t) ==
  /\ At(t, "PATCH /messages/:id", "version")
  /\ Step(t, [tasks[t] EXCEPT !.pc = "history",
                !.nextVersion = MaxVersion(tasks[t].data.messageId) + 1])
  /\ StoreUnchanged /\ ConnectionsUnchanged /\ UNCHANGED << rooms, broadcasts >>

RestPatchHistory(t) ==
  /\ At(t, "PATCH /messages/:id", "history")
  /\ LET task == tasks[t]
     IN IF EditKeyTaken(task.data.messageId, task.nextVersion)
        THEN /\ Step(t, Responded(task, 500,
                      [error |-> "duplicate key value violates unique constraint"]))
             /\ UNCHANGED << message_edits, clock >>
        ELSE /\ message_edits' = message_edits \cup {HistoryRow(task)}
             /\ clock' = clock + 1
             /\ Step(t, [task EXCEPT !.pc = "update"])
  /\ ConnectionsUnchanged
  /\ UNCHANGED << conversations, listings, conversation_participants, messages, rooms, broadcasts >>

RestPatchUpdate(t) ==
  /\ At(t, "PATCH /messages/:id", "update")
  /\ LET task == tasks[t]
         message == [messages[task.data.messageId] EXCEPT
                       !.body = task.data.body, !.edited_at = clock]
     IN /\ messages' = [messages EXCEPT ![task.data.messageId] = message]
        /\ Step(t, Responded(task, 200,
                  [id |-> message.id, conversation_id |-> message.conversation_id,
                   sender_user_id |-> message.sender_user_id, body |-> message.body,
                   created_at |-> message.created_at, edited_at |-> message.edited_at]))
  /\ clock' = clock + 1
  /\ ConnectionsUnchanged
  /\ UNCHANGED << conversations, listings, conversation_participants, message_edits, rooms, broadcasts >>

-----------------------------------------------------------------------------
(* DELETE /messages/:id, admin.routes.js:641-674 *)

RestDelete(t, userId, messageId) ==
  /\ MayRequest(t)
  /\ Step(t, [Request("DELETE /messages/:id", userId, [messageId |-> messageId])
                EXCEPT !.pc = "load", !.data = [messageId |-> messageId]])
  /\ StoreUnchanged /\ ConnectionsUnchanged /\ UNCHANGED << rooms, broadcasts >>

RestDeleteLoad(t) ==
  /\ At(t, "DELETE /messages/:id", "load")
  /\ LET task == tasks[t]
         msg == SelectMessage(task.data.messageId)
     IN IF ~IsUuid(task.data.messageId)
        THEN Step(t, Responded(task, 500, [error |-> "invalid input syntax for type uuid"]))
        ELSE IF msg = NoRow
        THEN Step(t, Responded(task, 404, [error |-> "Message not found"]))
        ELSE IF msg.deleted_at /= NULL
        THEN Step(t, Responded(task, 200, [ok |-> TRUE]))
        ELSE IF msg.sender_user_id /= task.userId
        THEN Step(t, Responded(task, 403, [error |-> "Not your message"]))
        ELSE Step(t, [task EXCEPT !.pc = "access", !.existing = msg])
  /\ StoreUnchanged /\ ConnectionsUnchanged /\ UNCHANGED << rooms, broadcasts >>

RestDeleteAccess(t) ==
  /\ At(t, "DELETE /messages/:id", "access")
  /\ LET task == tasks[t]
     IN IF ~ensureConversationAccess(task.existing.conversation_id, task.userId)
        THEN Step(t, Responded(task, 403, [error |-> "No access to conversation"]))
        ELSE Step(t, [task EXCEPT !.pc = "update"])
  /\ StoreUnchanged /\ ConnectionsUnchanged /\ UNCHANGED << rooms, broadcasts >>

RestDeleteUpdate(t) ==
  /\ At(t, "DELETE /messages/:id", "update")
  /\ LET task == tasks[t]
         messageId == task.data.messageId
     IN /\ messages' = [messages EXCEPT ![messageId].deleted_at = clock]
        /\ Step(t, Responded(task, 200,
                  [ok |-> TRUE, id |-> messageId, deleted_at |-> clock]))
  /\ clock' = clock + 1
  /\ ConnectionsUnchanged
  /\ UNCHANGED << conversations, listings, conversation_participants, message_edits, rooms, broadcasts >>

-----------------------------------------------------------------------------
(* The specifications *)

\* The ids a client names: 0 is no uuid, the largest message id is the id of no row
-----------------------------------------------------------------------------
(* POST /conversations/:id/messages, admin.routes.js:509-537 *)

\* sendMessageSchema.safeParse(req.body).success of admin.routes.js:
\* z.string().min(1).max(3000), without trim
restSendMessageSchema(reqBody) ==
  Has(reqBody, "body") /\ Len(reqBody.body) >= BodyMin /\ Len(reqBody.body) <= BodyMax

RestSend(t, userId, conversationId, reqBody) ==
  /\ MayRequest(t)
  /\ Len(messages) < MaxMessages
  /\ Step(t, [Request("POST /conversations/:id/messages", userId, reqBody)
                EXCEPT !.pc = "access", !.data = [conversationId |-> conversationId]])
  /\ StoreUnchanged /\ ConnectionsUnchanged /\ UNCHANGED << rooms, broadcasts >>

\* ensureConversationAccess, then the validation of the body
RestSendAccess(t) ==
  /\ At(t, "POST /conversations/:id/messages", "access")
  /\ LET task == tasks[t]
     IN IF ~IsUuid(task.data.conversationId)
        THEN Step(t, Responded(task, 500, [error |-> "invalid input syntax for type uuid"]))
        ELSE IF ~ensureConversationAccess(task.data.conversationId, task.userId)
        THEN Step(t, Responded(task, 403, [error |-> "No access to conversation"]))
        ELSE IF ~restSendMessageSchema(task.payload)
        THEN Step(t, Responded(task, 400, [error |-> "flatten"]))
        ELSE Step(t, [task EXCEPT !.pc = "insert"])
  /\ StoreUnchanged /\ ConnectionsUnchanged /\ UNCHANGED << rooms, broadcasts >>

\* INSERT INTO messages(conversation_id, sender_user_id, body) ... RETURNING *
RestSendInsert(t) ==
  /\ At(t, "POST /conversations/:id/messages", "insert")
  /\ Len(messages) < MaxMessages
  /\ LET task == tasks[t]
         row == [id |-> Len(messages) + 1,
                 conversation_id |-> task.data.conversationId,
                 sender_user_id |-> task.userId,
                 body |-> task.payload.body,
                 created_at |-> clock, edited_at |-> NULL, deleted_at |-> NULL]
     IN /\ messages' = Append(messages, row)
        /\ Step(t, Responded(task, 200, row))
  /\ clock' = clock + 1
  /\ ConnectionsUnchanged
  /\ UNCHANGED << conversations, listings, conversation_participants, message_edits, rooms,
                  broadcasts >>

-----------------------------------------------------------------------------
(* POST /conversations, admin.routes.js:303-369 *)

\* createConversationSchema.safeParse(req.body).success
createConversationSchema(reqBody) ==
  Has(reqBody, "listingId") /\ IsUuid(reqBody.listingId)

\* The conversations of the listing with status OPEN or CLOSED in which both
\* users have a participant row (the SELECT of admin.routes.js:329-341
\* without its ORDER BY and LIMIT)
SharedConversations(listingId, userId, ownerId) ==
  {c \in DOMAIN conversations :
     /\ conversations[c].listing_id = listingId
     /\ conversations[c].status \in {"OPEN", "CLOSED"}
     /\ <<c, userId>> \in DOMAIN conversation_participants
     /\ <<c, ownerId>> \in DOMAIN conversation_participants}

\* ORDER BY c.created_at DESC LIMIT 1: ids are given in the order of creation
Latest(S) == CHOOSE c \in S : \A d \in S : d <= c

\* uuid_generate_v4(): an id no conversation has
FreshConversation == CHOOSE c \in Conversations \ DOMAIN conversations :
                       \A d \in Conversations \ DOMAIN conversations : c <= d

RestConversations(t, userId, reqBody) ==
  /\ MayRequest(t)
  /\ LET task == Request("POST /conversations", userId, reqBody)
     IN IF ~createConversationSchema(reqBody)
        THEN Step(t, Responded(task, 400, [error |-> "flatten"]))
        ELSE Step(t, [task EXCEPT !.pc = "listing",
                                  !.data = [listingId |-> reqBody.listingId]])
  /\ StoreUnchanged /\ ConnectionsUnchanged /\ UNCHANGED << rooms, broadcasts >>

\* SELECT ... FROM listings WHERE id=$1 AND status <> 'DELETED'
RestConversationsListing(t) ==
  /\ At(t, "POST /conversations", "listing")
  /\ LET task == tasks[t]
         listingId == task.data.listingId
     IN IF listingId \notin DOMAIN listings \/ listings[listingId].status = "DELETED"
        THEN Step(t, Responded(task, 404, [error |-> "Listing not found"]))
        ELSE IF listings[listingId].owner_user_id = task.userId
        THEN Step(t, Responded(task, 400, [error |-> "Cannot message your own listing"]))
        ELSE Step(t, [task EXCEPT !.pc = "existing",
                        !.data = [listingId |-> listingId,
                                  ownerId |-> listings[listingId].owner_user_id]])
  /\ StoreUnchanged /\ ConnectionsUnchanged /\ UNCHANGED << rooms, broadcasts >>

\* The lookup of a conversation to reuse
RestConversationsExisting(t) ==
  /\ At(t, "POST /conversations", "existing")
  /\ LET task == tasks[t]
         found == SharedConversations(task.data.listingId, task.userId, task.data.ownerId)
     IN IF found /= {}
        THEN Step(t, Responded(task, 200, [conversationId |-> Latest(found),
                                           reused |-> TRUE]))
        ELSE Step(t, [task EXCEPT !.pc = "create"])
  /\ StoreUnchanged /\ ConnectionsUnchanged /\ UNCHANGED << rooms, broadcasts >>

\* INSERT INTO conversations(listing_id, created_by_user_id, status) ... RETURNING id
RestConversationsCreate(t) ==
  /\ At(t, "POST /conversations", "create")
  /\ Conversations \ DOMAIN conversations /= {}
  /\ LET task == tasks[t]
         conversationId == FreshConversation
     IN /\ conversations' =
             [c \in DOMAIN conversations \cup {conversationId} |->
                IF c = conversationId
                THEN ConversationRow(task.data.listingId, task.userId, "OPEN")
                ELSE conversations[c]]
        /\ Step(t, [task EXCEPT !.pc = "participants",
                        !.data = [listingId |-> task.data.listingId,
                                  ownerId |-> task.data.ownerId,
                                  conversationId |-> conversationId]])
  /\ ConnectionsUnchanged
  /\ UNCHANGED << listings, conversation_participants, messages, message_edits,
                  clock, rooms, broadcasts >>

\* INSERT INTO conversation_participants ... VALUES (c, user, 'INQUIRER'), (c, owner, 'OWNER')
RestConversationsParticipants(t) ==
  /\ At(t, "POST /conversations", "participants")
  /\ LET task == tasks[t]
         conversationId == task.data.conversationId
         added == {<<conversationId, task.userId>>, <<conversationId, task.data.ownerId>>}
     IN /\ conversation_participants' =
             [p \in DOMAIN conversation_participants \cup added |->
                IF p \in added THEN NULL ELSE conversation_participants[p]]
        /\ Step(t, Responded(task, 200, [conversationId |-> conversationId,
                                         reused |-> FALSE]))
  /\ ConnectionsUnchanged
  /\ UNCHANGED << conversations, listings, messages, message_edits, clock, rooms, broadcasts >>

\* The listing ids a client sends: no uuid, the listing, the deleted one, none
ListingIdInputs == {0, 1, 2, 3}

RestConversationsStarts ==
  \E t \in Tasks, userId \in Users, l \in ListingIdInputs :
    RestConversations(t, userId, [listingId |-> l])

RestConversationsContinues ==
  \/ \E t \in Tasks : RestConversationsListing(t)
  \/ \E t \in Tasks : RestConversationsExisting(t)
  \/ \E t \in Tasks : RestConversationsCreate(t)
  \/ \E t \in Tasks : RestConversationsParticipants(t)

NextConversations ==
  \/ RestConversationsStarts
  \/ RestConversationsContinues

\* POST /conversations requests, running concurrently, on a store that holds
\* no conversation yet
SpecConversations == InitBare /\ [][NextConversations]_vars

ConversationIdInputs == {0} \cup Conversations

MessageIdInputs == 0..(MaxMessages + 1)

Connects == \E s \in SocketIds, userId \in Users : Connection(s, userId)

\* One client connects, as any user
ConnectsFirst == \E userId \in Users : Connection(1, userId)

Revokes == \E c \in Conversations, userId \in Users : RevokeParticipant(c, userId)

SendSteps ==
  \/ \E t \in Tasks, s \in SocketIds, c \in ConversationIdInputs, body \in RawBodies :
       MessageSend(t, s, [conversationId |-> c, body |-> body], TRUE)
  \/ \E t \in Tasks : MessageSendAccess(t)
  \/ \E t \in Tasks : MessageSendInsert(t)
  \/ \E t \in Tasks : MessageSendRead(t)

EditStarts ==
  \E t \in Tasks, s \in SocketIds, m \in MessageIdInputs, body \in RawBodies :
    MessageEdit(t, s, [messageId |-> m, body |-> body], TRUE)

EditContinues ==
  \/ \E t \in Tasks : MessageEditLoad(t)
  \/ \E t \in Tasks : MessageEditAccess(t)
  \/ \E t \in Tasks : MessageEditVersion(t)
  \/ \E t \in Tasks : MessageEditHistory(t)
  \/ \E t \in Tasks : MessageEditUpdate(t)

EditSteps == EditStarts \/ EditContinues

DeleteStarts ==
  \E t \in Tasks, s \in SocketIds, m \in MessageIdInputs :
    MessageDelete(t, s, [messageId |-> m], TRUE)

DeleteContinues ==
  \/ \E t \in Tasks : MessageDeleteLoad(t)
  \/ \E t \in Tasks : MessageDeleteAccess(t)
  \/ \E t \in Tasks : MessageDeleteUpdate(t)

DeleteSteps == DeleteStarts \/ DeleteContinues

ReadSteps ==
  \/ \E t \in Tasks, s \in SocketIds, c \in ConversationIdInputs :
       ConversationRead(t, s, [conversationId |-> c], TRUE)
  \/ \E t \in Tasks : ConversationReadAccess(t)
  \/ \E t \in Tasks : ConversationReadUpdate(t)

RoomSteps ==
  \/ \E t \in Tasks, s \in SocketIds, c \in ConversationIdInputs :
       ConversationJoin(t, s, [conversationId |-> c], TRUE)
  \/ \E t \in Tasks : ConversationJoinAccess(t)
  \/ \E t \in Tasks, s \in SocketIds, c \in ConversationIdInputs :
       ConversationLeave(t, s, [conversationId |-> c], TRUE)

RestPatchStarts ==
  \E t \in Tasks, userId \in Users, m \in MessageIdInputs, body \in RawBodies :
    RestPatch(t, userId, m, [body |-> body])

RestPatchContinues ==
  \/ \E t \in Tasks : RestPatchLoad(t)
  \/ \E t \in Tasks : RestPatchAccess(t)
  \/ \E t \in Tasks : RestPatchVersion(t)
  \/ \E t \in Tasks : RestPatchHistory(t)
  \/ \E t \in Tasks : RestPatchUpdate(t)

RestPatchSteps == RestPatchStarts \/ RestPatchContinues

RestDeleteStarts ==
  \E t \in Tasks, userId \in Users, m \in MessageIdInputs : RestDelete(t, userId, m)

RestDeleteContinues ==
  \/ \E t \in Tasks : RestDeleteLoad(t)
  \/ \E t \in Tasks : RestDeleteAccess(t)
  \/ \E t \in Tasks : RestDeleteUpdate(t)

RestDeleteSteps == RestDeleteStarts \/ RestDeleteContinues

NextLedger ==
  \/ ConnectsFirst
  \/ Revokes
  \/ SendSteps
  \/ EditSteps
  \/ DeleteSteps
  \/ RestPatchSteps
  \/ RestDeleteSteps

\* The handlers of the message ledger, running concurrently
SpecLedger == InitSeeded /\ [][NextLedger]_vars

\* No handler is between its start and its acknowledgment
Idle == \A t \in Tasks : Free(t)

NextSend ==
  \/ ConnectsFirst
  \/ Revokes
  \/ SendSteps

\* message:send handlers, running concurrently
SpecSend == InitOne /\ [][NextSend]_vars

NextEdit ==
  \/ ConnectsFirst
  \/ Revokes
  \/ Idle /\ EditStarts
  \/ EditContinues
  \/ Idle /\ RestPatchStarts
  \/ RestPatchContinues

\* Edits over both transports, each handler completing before the next starts
\* (the store may still lose participant rows in between)
SpecEditSeq == InitSeeded /\ [][NextEdit]_vars

NextDelete ==
  \/ ConnectsFirst
  \/ Revokes
  \/ Idle /\ DeleteStarts
  \/ DeleteContinues
  \/ Idle /\ RestDeleteStarts
  \/ RestDeleteContinues

\* Deletes over both transports, each handler completing before the next starts
SpecDeleteSeq == InitSeeded /\ [][NextDelete]_vars

NextMutate ==
  \/ ConnectsFirst
  \/ Revokes
  \/ EditSteps
  \/ DeleteSteps

\* message:edit and message:delete handlers of one client, running concurrently
SpecMutate == InitSeeded /\ [][NextMutate]_vars

\* Events whose payload carries, next to the fields of the schema, a userId
\* the client claims to act as
ClaimedStarts ==
  \E t \in Tasks, s \in SocketIds, claimed \in Users :
    \/ MessageSend(t, s, [conversationId |-> 1, body |-> <<"a">>, userId |-> claimed], TRUE)
    \/ MessageEdit(t, s, [messageId |-> 1, body |-> <<"b">>, userId |-> claimed], TRUE)
    \/ MessageDelete(t, s, [messageId |-> 1, userId |-> claimed], TRUE)
    \/ ConversationRead(t, s, [conversationId |-> 1, userId |-> claimed], TRUE)

SendContinues ==
  \/ \E t \in Tasks : MessageSendAccess(t)
  \/ \E t \in Tasks : MessageSendInsert(t)
  \/ \E t \in Tasks : MessageSendRead(t)

ReadContinues ==
  \/ \E t \in Tasks : ConversationReadAccess(t)
  \/ \E t \in Tasks : ConversationReadUpdate(t)

NextIdentity ==
  \/ Connects
  \/ \E s \in SocketIds : Disconnect(s)
  \/ Idle /\ ClaimedStarts
  \/ SendContinues
  \/ EditContinues
  \/ DeleteContinues
  \/ ReadContinues

\* Two clients whose events name a user to act as, one handler at a time
SpecIdentity == InitOne /\ [][NextIdentity]_vars

\* Per event the payloads that fail its schema: no payload, a missing key, an
\* id that is no uuid, a body that is blank or too long, a userIds list that
\* is empty, too long or holds a string that is no uuid
BadConversationPayloads == {Undefined, [conversationId |-> 0]}

BadSendPayloads ==
  {Undefined, [conversationId |-> 1],
   [conversationId |-> 0, body |-> <<"a">>],
   [conversationId |-> 1, body |-> <<" ">>],
   [conversationId |-> 1, body |-> [i \in 1..(BodyMax + 1) |-> "a"]]}

BadEditPayloads ==
  {Undefined, [messageId |-> 0, body |-> <<"b">>], [messageId |-> 1, body |-> << >>]}

BadDeletePayloads == {Undefined, [messageId |-> 0]}

BadBatchPayloads ==
  {Undefined, [userIds |-> << >>], [userIds |-> <<1, 0>>],
   [userIds |-> [i \in 1..(PresenceBatchMax + 1) |-> 1]]}

\* An event arrives with one of these payloads, with or without a callback
InvalidStarts ==
  \E t \in Tasks, s \in SocketIds, ack \in BOOLEAN :
    \/ \E payload \in BadBatchPayloads : PresenceBatch(t, s, payload, ack)
    \/ \E payload \in BadConversationPayloads : ConversationJoin(t, s, payload, ack)
    \/ \E payload \in BadConversationPayloads : ConversationLeave(t, s, payload, ack)
    \/ \E payload \in BadSendPayloads : MessageSend(t, s, payload, ack)
    \/ \E payload \in BadEditPayloads : MessageEdit(t, s, payload, ack)
    \/ \E payload \in BadDeletePayloads : MessageDelete(t, s, payload, ack)
    \/ \E payload \in BadConversationPayloads : ConversationRead(t, s, payload, ack)

\* A message:send or a conversation:read with a payload that passes
ValidStarts ==
  \E t \in Tasks, s \in SocketIds :
    \/ MessageSend(t, s, [conversationId |-> 1, body |-> <<"a">>], TRUE)
    \/ ConversationRead(t, s, [conversationId |-> 1], TRUE)

NextInvalid ==
  \/ ConnectsFirst
  \/ Idle /\ ValidStarts
  \/ InvalidStarts
  \/ SendContinues
  \/ ReadContinues

\* One client: its events with a valid payload one after the other, those
\* with an invalid payload at any moment
SpecInvalid == InitBoth /\ [][NextInvalid]_vars

SendStarts ==
  \E t \in Tasks, s \in SocketIds, c \in ConversationIdInputs, body \in RawBodies :
    MessageSend(t, s, [conversationId |-> c, body |-> body], TRUE)

NextDeliver ==
  \/ Connects
  \/ \E s \in SocketIds : JoinAllUserConversationRooms(s)
  \/ Idle /\ SendStarts
  \/ SendContinues

\* Two clients in their rooms, one message:send handler at a time, the
\* participant rows staying as they are
SpecDeliver == InitOne /\ [][NextDeliver]_vars

ReadStarts ==
  \E t \in Tasks, s \in SocketIds, c \in ConversationIdInputs :
    ConversationRead(t, s, [conversationId |-> c], TRUE)

NextReadSeq ==
  \/ Connects
  \/ \E s \in SocketIds : JoinAllUserConversationRooms(s)
  \/ Idle /\ Revokes
  \/ Idle /\ ReadStarts
  \/ ReadContinues

\* Two clients marking conversations read, one handler at a time; participant
\* rows are removed between the handlers
SpecReadSeq == InitOne /\ [][NextReadSeq]_vars

NextFrame ==
  \/ ConnectsFirst
  \/ Idle /\ SendStarts
  \/ SendContinues
  \/ Idle /\ EditStarts
  \/ EditContinues
  \/ Idle /\ DeleteStarts
  \/ DeleteContinues
  \/ Idle /\ ReadStarts
  \/ ReadContinues
  \/ Idle /\ RestPatchStarts
  \/ RestPatchContinues
  \/ Idle /\ RestDeleteStarts
  \/ RestDeleteContinues

\* Every operation on the message ledger, over both transports, one at a time
SpecFrame == InitOne /\ [][NextFrame]_vars

NextStale ==
  \/ ConnectsFirst
  \/ \E s \in SocketIds : JoinAllUserConversationRooms(s)
  \/ Idle /\ Revokes
  \/ Idle /\ SendStarts
  \/ SendContinues
  \/ Idle /\ EditStarts
  \/ EditContinues
  \/ Idle /\ DeleteStarts
  \/ DeleteContinues
  \/ Idle /\ ReadStarts
  \/ ReadContinues

\* One client in its rooms; participant rows are removed between its
\* operations, which run one at a time
SpecStale == InitOne /\ [][NextStale]_vars

LeaveStarts ==
  \E t \in Tasks, s \in SocketIds, c \in ConversationIdInputs :
    ConversationLeave(t, s, [conversationId |-> c], TRUE)

JoinStarts ==
  \E t \in Tasks, s \in SocketIds, c \in ConversationIdInputs :
    ConversationJoin(t, s, [conversationId |-> c], TRUE)

NextLeave ==
  \/ Connects
  \/ \E s \in SocketIds : JoinAllUserConversationRooms(s)
  \/ Idle /\ JoinStarts
  \/ \E t \in Tasks : ConversationJoinAccess(t)
  \/ Idle /\ LeaveStarts

\* Two clients joining and leaving conversation rooms, one event at a time
SpecLeave == InitOne /\ [][NextLeave]_vars

RestSendStarts ==
  \E t \in Tasks, userId \in Users, c \in ConversationIdInputs, body \in RawBodies :
    RestSend(t, userId, c, [body |-> body])

RestSendContinues ==
  \/ \E t \in Tasks : RestSendAccess(t)
  \/ \E t \in Tasks : RestSendInsert(t)

NextBodies ==
  \/ ConnectsFirst
  \/ Idle /\ SendStarts
  \/ SendContinues
  \/ Idle /\ EditStarts
  \/ EditContinues
  \/ Idle /\ RestSendStarts
  \/ RestSendContinues
  \/ Idle /\ RestPatchStarts
  \/ RestPatchContinues

\* The four entry points that write a message body, one operation at a time
SpecBodies == InitOne /\ [][NextBodies]_vars

SendFails == \E t \in Tasks : MessageSendFails(t)

EditFails == \E t \in Tasks : MessageEditFails(t)

NextSendFail ==
  \/ ConnectsFirst
  \/ SendSteps
  \/ SendFails

\* message:send handlers, running concurrently, on a store whose queries may fail
SpecSendFail == InitOne /\ [][NextSendFail]_vars

NextEditFail ==
  \/ ConnectsFirst
  \/ EditSteps
  \/ EditFails

\* message:edit handlers, running concurrently, on a store whose queries may fail
SpecEditFail == InitSeeded /\ [][NextEditFail]_vars

NextGap ==
  \/ ConnectsFirst
  \/ Revokes
  \/ Idle /\ SendStarts
  \/ SendContinues
  \/ Idle /\ EditStarts
  \/ EditContinues
  \/ Idle /\ DeleteStarts
  \/ DeleteContinues
  \/ Idle /\ ReadStarts
  \/ ReadContinues

\* The four writing handlers of one client, each completing before the next
\* starts, while the store loses participant rows between their queries
SpecGap == InitBoth /\ [][NextGap]_vars

NextResyncFail ==
  \/ Connects
  \/ \E s \in SocketIds : JoinAllUserConversationRooms(s)
  \/ \E s \in SocketIds : JoinAllUserConversationRoomsFails(s)
  \/ Idle /\ JoinStarts
  \/ \E t \in Tasks : ConversationJoinAccess(t)

\* Two clients connecting and joining rooms, on a store that may fail the
\* query of the initial resync
SpecResyncFail == InitOne /\ [][NextResyncFail]_vars

NextDisconnect ==
  \/ Connects
  \/ \E s \in SocketIds : Disconnect(s)
  \/ \E s \in SocketIds : DisconnectAgain(s)
  \/ \E task \in presenceTasks : EmitPresenceForUser(task)
  \/ Idle /\ JoinStarts
  \/ \E t \in Tasks : ConversationJoinAccess(t)

\* Two clients connecting and disconnecting, with conversation:join handlers in
\* flight, where a disconnect may be signalled again
SpecDisconnect == InitBoth /\ [][NextDisconnect]_vars

NextStoreFail ==
  \/ Connects
  \/ \E s \in SocketIds : Disconnect(s)
  \/ \E task \in presenceTasks : EmitPresenceForUser(task)
  \/ \E task \in presenceTasks : EmitPresenceForUserFails(task)
  \/ Idle /\ SendStarts
  \/ SendContinues
  \/ SendFails

\* Two clients connecting, sending and disconnecting on a store whose queries
\* may fail
SpecStoreFail == InitBoth /\ [][NextStoreFail]_vars

\* The steps of the message:send handler in slot t: an answer, a rejection, or
\* no answer of the store
SendStepOf(t) ==
  \/ MessageSendAccess(t)
  \/ MessageSendInsert(t)
  \/ MessageSendRead(t)
  \/ MessageSendFails(t)
  \/ MessageSendHangs(t)

NextHang ==
  \/ ConnectsFirst
  \/ SendStarts
  \/ \E t \in Tasks : SendStepOf(t)

\* message:send handlers on a store that may answer, reject or never answer;
\* the event loop runs every handler whose awaited call has settled
SpecHang ==
  InitOne /\ [][NextHang]_vars /\ \A t \in Tasks : WF_vars(SendStepOf(t))

NextNewConversation ==
  \/ Connects
  \/ \E s \in SocketIds : JoinAllUserConversationRooms(s)
  \/ Idle /\ RestConversationsStarts
  \/ RestConversationsContinues
  \/ Idle /\ SendStarts
  \/ SendContinues

\* Two clients, connected over the socket, open a conversation through
\* POST /conversations and send messages to it; the store holds no
\* conversation at the start
SpecNewConversation == InitBare /\ [][NextNewConversation]_vars

-----------------------------------------------------------------------------
(* The listings router (unnamed/part_002) and the listing reviews of the    *)
(* admin router (admin.routes.js).  Of the columns an owner edits the model *)
(* keeps title, latitude and longitude.  A text column that is NULL holds   *)
(* NoText; the schemas admit no text of length 0.                           *)

\* req.params.id: the uuid of the listing of user 1 or of no listing
ListingParams == {1, 3}

\* users.role = 'ADMIN' (requireAdmin, admin.routes.js:8)
Admins == {2}

ListingStatuses == {"DRAFT", "PENDING", "APPROVED", "REJECTED", "ARCHIVED", "DELETED"}

NoBody == [k \in {} |-> NULL]

\* The request bodies of PATCH /listings/:id
ListingPatchBodies ==
  { NoBody,
    [title |-> <<"f", "l", "a", "t", "s">>],
    [title |-> <<"f", "l", "a", "t">>],
    [latitude |-> 1],
    [latitude |-> NULL],
    [latitude |-> 1, longitude |-> 1] }

\* hasValue(payload[k]): neither undefined nor null
hasValue(payload, k) == k \in DOMAIN payload /\ payload[k] /= NULL

coordinatesPairIsValid(payload) ==
  hasValue(payload, "latitude") <=> hasValue(payload, "longitude")

\* patchSchema.safeParse(req.body).success for the fields of the model
patchSchema(reqBody) ==
  "title" \in DOMAIN reqBody =>
     Len(reqBody.title) >= TitleMin /\ Len(reqBody.title) <= TitleMax

\* UPDATE listings SET <the fields of d>, updated_at=now()
ListingWith(row, d) ==
  [k \in DOMAIN row |-> IF k \in DOMAIN d THEN d[k]
                        ELSE IF k = "updated_at" THEN clock ELSE row[k]]

\* PATCH /listings/:id: validation of the body
ListingPatch(t, userId, id, reqBody) ==
  /\ MayRequest(t)
  /\ LET task == Request("PATCH /listings/:id", userId, [id |-> id, body |-> reqBody])
     IN IF ~patchSchema(reqBody)
        THEN Step(t, Responded(task, 400, [error |-> "flatten"]))
        ELSE IF ~coordinatesPairIsValid(reqBody)
        THEN Step(t, Responded(task, 400,
                  [error |-> "Latitude and longitude must be provided together"]))
        ELSE Step(t, [task EXCEPT !.pc = "base", !.data = [id |-> id, d |-> reqBody]])
  /\ StoreUnchanged /\ ConnectionsUnchanged /\ UNCHANGED << rooms, broadcasts >>

\* SELECT owner_user_id, status FROM listings WHERE id=$1 and the checks on it
ListingPatchBase(t) ==
  /\ At(t, "PATCH /listings/:id", "base")
  /\ LET task == tasks[t]
         id == task.data.id
     IN IF id \notin DOMAIN listings
        THEN Step(t, Responded(task, 404, [error |-> "Not found"]))
        ELSE IF listings[id].owner_user_id /= task.userId
        THEN Step(t, Responded(task, 403, [error |-> "Not yours"]))
        ELSE IF listings[id].status \notin {"DRAFT", "REJECTED"}
        THEN Step(t, Responded(task, 400,
                  [error |-> "Can only edit DRAFT or REJECTED listings"]))
        ELSE IF DOMAIN task.data.d = {}
        THEN Step(t, Responded(task, 200, [ok |-> TRUE, message |-> "No changes"]))
        ELSE Step(t, [task EXCEPT !.pc = "update"])
  /\ StoreUnchanged /\ ConnectionsUnchanged /\ UNCHANGED << rooms, broadcasts >>

\* UPDATE listings SET ..., updated_at=now() WHERE id=$i RETURNING *
ListingPatchUpdate(t) ==
  /\ At(t, "PATCH /listings/:id", "update")
  /\ LET task == tasks[t]
         id == task.data.id
         row == ListingWith(listings[id], task.data.d)
     IN /\ listings' = [listings EXCEPT ![id] = row]
        /\ Step(t, Responded(task, 200, row))
  /\ clock' = clock + 1
  /\ ConnectionsUnchanged
  /\ UNCHANGED << conversations, conversation_participants, messages, message_edits,
                  rooms, broadcasts >>

\* A handler of the listings router that reads the owner of the listing first
ListingOwned(t, ev, userId, id) ==
  /\ MayRequest(t)
  /\ Step(t, [Request(ev, userId, [id |-> id]) EXCEPT !.pc = "own", !.data = [id |-> id]])
  /\ StoreUnchanged /\ ConnectionsUnchanged /\ UNCHANGED << rooms, broadcasts >>

\* SELECT owner_user_id ... FROM listings WHERE id=$1 of submit, delete, archive
ListingOwn(t, ev) ==
  /\ At(t, ev, "own")
  /\ LET task == tasks[t]
         id == task.data.id
     IN IF id \notin DOMAIN listings
        THEN Step(t, Responded(task, 404, [error |-> "Not found"]))
        ELSE IF listings[id].owner_user_id /= task.userId
        THEN Step(t, Responded(task, 403, [error |-> "Not yours"]))
        ELSE Step(t, [task EXCEPT !.pc = "update"])
  /\ StoreUnchanged /\ ConnectionsUnchanged /\ UNCHANGED << rooms, broadcasts >>

\* UPDATE listings SET status=..., updated_at=now() WHERE id=$1 AND status IN from:
\* the row is written when the status it has now is in `from`
ListingStatusUpdate(t, ev, from, row, refusal) ==
  /\ At(t, ev, "update")
  /\ LET task == tasks[t]
         id == task.data.id
     IN IF id \in DOMAIN listings /\ listings[id].status \in from
        THEN /\ listings' = [listings EXCEPT ![id] = row]
             /\ clock' = clock + 1
             /\ Step(t, Responded(task, 200, row))
        ELSE /\ UNCHANGED << listings, clock >>
             /\ Step(t, refusal)
  /\ ConnectionsUnchanged
  /\ UNCHANGED << conversations, conversation_participants, messages, message_edits,
                  rooms, broadcasts >>

\* The row of the listing a task names, or a row of no listing
ListingOf(t) ==
  IF tasks[t].data.id \in DOMAIN listings THEN listings[tasks[t].data.id]
  ELSE ListingRow(0, "DELETED")

\* POST /listings/:id/submit
ListingSubmit(t, userId, id) == ListingOwned(t, "POST /listings/:id/submit", userId, id)

ListingSubmitOwn(t) == ListingOwn(t, "POST /listings/:id/submit")

ListingSubmitUpdate(t) ==
  ListingStatusUpdate(t, "POST /listings/:id/submit", {"DRAFT", "REJECTED"},
    [ListingOf(t) EXCEPT !.status = "PENDING", !.updated_at = clock,
                         !.review_note = NoText, !.reviewed_by_admin_id = NULL],
    Responded(tasks[t], 400, [error |-> "Cannot submit from current status"]))

\* DELETE /listings/:id
ListingDelete(t, userId, id) == ListingOwned(t, "DELETE /listings/:id", userId, id)

ListingDeleteOwn(t) == ListingOwn(t, "DELETE /listings/:id")

\* the UPDATE has no condition on the status; q.rows[0] is { id, status }
ListingDeleteUpdate(t) ==
  /\ At(t, "DELETE /listings/:id", "update")
  /\ LET task == tasks[t]
         id == task.data.id
     IN /\ listings' = [listings EXCEPT ![id].status = "DELETED", ![id].updated_at = clock]
        /\ Step(t, Responded(task, 200, [id |-> id, status |-> "DELETED"]))
  /\ clock' = clock + 1
  /\ ConnectionsUnchanged
  /\ UNCHANGED << conversations, conversation_participants, messages, message_edits,
                  rooms, broadcasts >>

\* POST /listings/:id/archive
ListingArchive(t, userId, id) == ListingOwned(t, "POST /listings/:id/archive", userId, id)

ListingArchiveOwn(t) == ListingOwn(t, "POST /listings/:id/archive")

ListingArchiveUpdate(t) ==
  ListingStatusUpdate(t, "POST /listings/:id/archive",
    {"APPROVED", "PENDING", "DRAFT", "REJECTED"},
    [ListingOf(t) EXCEPT !.status = "ARCHIVED", !.updated_at = clock],
    Responded(tasks[t], 400, [error |-> "Cannot archive from current status"]))

\* The notes an admin sends
NoteInputs == { <<"o", "k">>, <<"x">> }

\* z.string().min(2).max(300)
NoteIsValid(note) == Len(note) >= NoteMin /\ Len(note) <= NoteMax

noteSchema(reqBody) == "note" \in DOMAIN reqBody /\ NoteIsValid(reqBody.note)

listingStatusSchema(reqBody) ==
  /\ "status" \in DOMAIN reqBody /\ reqBody.status \in ListingStatuses
  /\ "note" \in DOMAIN reqBody => NoteIsValid(reqBody.note)

\* POST /admin/listings/:id/approve and /reject: validation of the note
ListingReview(t, ev, adminId, id, reqBody) ==
  /\ MayRequest(t)
  /\ LET task == Request(ev, adminId, [id |-> id, body |-> reqBody])
     IN IF ~noteSchema(reqBody)
        THEN Step(t, Responded(task, 400, [error |-> "flatten"]))
        ELSE Step(t, [task EXCEPT !.pc = "update",
                                  !.data = [id |-> id, note |-> reqBody.note]])
  /\ StoreUnchanged /\ ConnectionsUnchanged /\ UNCHANGED << rooms, broadcasts >>

\* UPDATE listings SET status=$verdict, reviewed_by_admin_id=$2, review_note=$3,
\* updated_at=now() WHERE id=$1 AND status='PENDING' RETURNING *; the INSERT
\* INTO audit_log is awaited before the answer
ListingReviewUpdate(t, ev, verdict) ==
  /\ At(t, ev, "update")
  /\ LET task == tasks[t]
         id == task.data.id
         row == [ListingOf(t) EXCEPT !.status = verdict, !.updated_at = clock,
                                     !.reviewed_by_admin_id = task.userId,
                                     !.review_note = task.data.note]
     IN IF id \in DOMAIN listings /\ listings[id].status = "PENDING"
        THEN /\ listings' = [listings EXCEPT ![id] = row]
             /\ clock' = clock + 1
             /\ Step(t, [task EXCEPT !.pc = "audit", !.data = [id |-> id, row |-> row]])
        ELSE /\ UNCHANGED << listings, clock >>
             /\ Step(t, Responded(task, 404, [error |-> "Listing not found or not pending"]))
  /\ ConnectionsUnchanged
  /\ UNCHANGED << conversations, conversation_participants, messages, message_edits,
                  rooms, broadcasts >>

\* INSERT INTO audit_log(...) and res.json(r.rows[0]); the model keeps no audit_log
ListingAudit(t, ev) ==
  /\ At(t, ev, "audit")
  /\ Step(t, Responded(tasks[t], 200, tasks[t].data.row))
  /\ StoreUnchanged /\ ConnectionsUnchanged /\ UNCHANGED << rooms, broadcasts >>

ListingApprove(t, adminId, id, reqBody) ==
  ListingReview(t, "POST /admin/listings/:id/approve", adminId, id, reqBody)

ListingApproveUpdate(t) ==
  ListingReviewUpdate(t, "POST /admin/listings/:id/approve", "APPROVED")

ListingApproveAudit(t) == ListingAudit(t, "POST /admin/listings/:id/approve")

ListingReject(t, adminId, id, reqBody) ==
  ListingReview(t, "POST /admin/listings/:id/reject", adminId, id, reqBody)

ListingRejectUpdate(t) ==
  ListingReviewUpdate(t, "POST /admin/listings/:id/reject", "REJECTED")

ListingRejectAudit(t) == ListingAudit(t, "POST /admin/listings/:id/reject")

\* The request bodies of PATCH /admin/listings/:id/status
ListingStatusBodies ==
  { [status |-> "PENDING"], [status |-> "DRAFT"], [status |-> "LIVE"],
    [status |-> "APPROVED", note |-> <<"o", "k">>],
    [status |-> "REJECTED", note |-> <<"x">>] }

\* PATCH /admin/listings/:id/status: validation of the body
ListingSetStatus(t, adminId, id, reqBody) ==
  /\ MayRequest(t)
  /\ LET task == Request("PATCH /admin/listings/:id/status", adminId,
                         [id |-> id, body |-> reqBody])
     IN IF ~listingStatusSchema(reqBody)
        THEN Step(t, Responded(task, 400, [error |-> "flatten"]))
        ELSE Step(t, [task EXCEPT !.pc = "update",
                        !.data = [id |-> id, status |-> reqBody.status,
                                  note |-> IF "note" \in DOMAIN reqBody
                                           THEN reqBody.note ELSE NoText]])
  /\ StoreUnchanged /\ ConnectionsUnchanged /\ UNCHANGED << rooms, broadcasts >>

\* UPDATE listings SET status=$2, review_note=$3, reviewed_by_admin_id=$4,
\* updated_at=now() WHERE id=$1 RETURNING *
ListingSetStatusUpdate(t) ==
  /\ At(t, "PATCH /admin/listings/:id/status", "update")
  /\ LET task == tasks[t]
         id == task.data.id
         row == [ListingOf(t) EXCEPT
                   !.status = task.data.status, !.updated_at = clock,
                   !.review_note = task.data.note,
                   !.reviewed_by_admin_id =
                      IF task.data.status \in {"APPROVED", "REJECTED"}
                      THEN task.userId ELSE NULL]
     IN IF id \in DOMAIN listings
        THEN /\ listings' = [listings EXCEPT ![id] = row]
             /\ clock' = clock + 1
             /\ Step(t, [task EXCEPT !.pc = "audit", !.data = [id |-> id, row |-> row]])
        ELSE /\ UNCHANGED << listings, clock >>
             /\ Step(t, Responded(task, 404, [error |-> "Listing not found"]))
  /\ ConnectionsUnchanged
  /\ UNCHANGED << conversations, conversation_participants, messages, message_edits,
                  rooms, broadcasts >>

ListingSetStatusAudit(t) == ListingAudit(t, "PATCH /admin/listings/:id/status")

ListingPatchStarts ==
  \E t \in Tasks, userId \in Users, id \in ListingParams, reqBody \in ListingPatchBodies :
    ListingPatch(t, userId, id, reqBody)

ListingPatchContinues ==
  \/ \E t \in Tasks : ListingPatchBase(t)
  \/ \E t \in Tasks : ListingPatchUpdate(t)

ListingOwnerStarts ==
  \/ \E t \in Tasks, userId \in Users, id \in ListingParams : ListingSubmit(t, userId, id)
  \/ \E t \in Tasks, userId \in Users, id \in ListingParams : ListingDelete(t, userId, id)
  \/ \E t \in Tasks, userId \in Users, id \in ListingParams : ListingArchive(t, userId, id)

ListingOwnerContinues ==
  \/ \E t \in Tasks : ListingSubmitOwn(t)
  \/ \E t \in Tasks : ListingSubmitUpdate(t)
  \/ \E t \in Tasks : ListingDeleteOwn(t)
  \/ \E t \in Tasks : ListingDeleteUpdate(t)
  \/ \E t \in Tasks : ListingArchiveOwn(t)
  \/ \E t \in Tasks : ListingArchiveUpdate(t)

ListingAdminStarts ==
  \/ \E t \in Tasks, adminId \in Admins, id \in ListingParams, note \in NoteInputs :
       ListingApprove(t, adminId, id, [note |-> note])
  \/ \E t \in Tasks, adminId \in Admins, id \in ListingParams, note \in NoteInputs :
       ListingReject(t, adminId, id, [note |-> note])
  \/ \E t \in Tasks, adminId \in Admins, id \in ListingParams,
        reqBody \in ListingStatusBodies :
       ListingSetStatus(t, adminId, id, reqBody)

ListingAdminContinues ==
  \/ \E t \in Tasks : ListingApproveUpdate(t)
  \/ \E t \in Tasks : ListingApproveAudit(t)
  \/ \E t \in Tasks : ListingRejectUpdate(t)
  \/ \E t \in Tasks : ListingRejectAudit(t)
  \/ \E t \in Tasks : ListingSetStatusUpdate(t)
  \/ \E t \in Tasks : ListingSetStatusAudit(t)

ListingSteps ==
  \/ ListingPatchStarts
  \/ ListingPatchContinues
  \/ ListingOwnerStarts
  \/ ListingOwnerContinues
  \/ ListingAdminStarts
  \/ ListingAdminContinues

NextListings ==
  \/ Idle /\ ListingPatchStarts
  \/ ListingPatchContinues
  \/ ListingOwnerStarts
  \/ ListingOwnerContinues
  \/ ListingAdminStarts
  \/ ListingAdminContinues

\* An owner edits, submits, archives and deletes listings while an admin
\* reviews them; a PATCH starts when no request is being handled, and the
\* other requests are handled next to it and to one another
SpecListings == InitBoth /\ [][NextListings]_vars

NextRooms ==
  \/ ConnectsFirst
  \/ \E s \in SocketIds : Disconnect(s)
  \/ \E s \in SocketIds : JoinAllUserConversationRooms(s)
  \/ Revokes
  \/ RoomSteps

\* The rooms of one client, its handlers running concurrently
SpecRooms == InitOne /\ [][NextRooms]_vars

\* The handshakes tried: no credential in its four shapes, each token in
\* auth.token and in the header, a bare "Bearer " in auth.token with a header
\* behind it, and two handshakes whose auth.token and header disagree
Handshakes ==
  {hs \in [auth : HandshakeValues, header : HandshakeValues] :
     \/ hs.header.kind = "absent" /\ ~hs.auth.bearer
     \/ hs.header.kind = "absent" /\ hs.auth.token = ""
     \/ hs.auth.kind = "absent" /\ hs.header.bearer /\ hs.header.token /= ""
     \/ hs.auth = [kind |-> "string", bearer |-> TRUE, token |-> ""]
          /\ hs.header.bearer /\ hs.header.token \in {"nouser", "u1"}
     \/ ~hs.auth.bearer /\ hs.header.bearer
          /\ <<hs.auth.token, hs.header.token>> \in {<<"u1", "bad">>, <<"bad", "u2">>}}

Uses == \E s \in SocketIds, hs \in Handshakes : Use(s, hs)

\* The "connection" listener runs for the attempts the middleware let through
Accepts ==
  \E s \in SocketIds, userId \in Users :
    sockets[s].state = "accepted" /\ Connection(s, userId)

\* Connection attempts, accepted or rejected, among running connections
NextHandshake ==
  \/ Uses
  \/ Accepts
  \/ \E s \in SocketIds : Disconnect(s)
  \/ \E task \in presenceTasks : EmitPresenceForUser(task)

SpecHandshake == InitBare /\ [][NextHandshake]_vars

Next ==
  \/ Uses
  \/ Connects
  \/ \E s \in SocketIds : Disconnect(s)
  \/ \E s \in SocketIds : JoinAllUserConversationRooms(s)
  \/ \E task \in presenceTasks : EmitPresenceForUser(task)
  \/ Revokes
  \/ \E t \in Tasks, s \in SocketIds, userIds \in BatchInputs :
       PresenceBatch(t, s, [userIds |-> userIds], TRUE)
  \/ RoomSteps
  \/ SendSteps
  \/ EditSteps
  \/ DeleteSteps
  \/ ReadSteps
  \/ RestPatchSteps
  \/ RestDeleteSteps
  \/ ListingSteps

Spec == Init /\ [][Next]_vars

-----------------------------------------------------------------------------
(* Properties of the presence registry and of presence broadcasts *)

\* The live connections of a user: the sockets that are connected as that user
Live(userId) ==
  {s \in SocketIds : sockets[s].state = "ready" /\ sockets[s].userId = userId}

\* The ids a registry holds for a user (none when it has no entry)
Held(map, userId) == {c \in SocketIds : userId \in DOMAIN map /\ c \in map[userId]}

\* C1: in every reachable state isUserOnline(u) is true iff the registry holds
\* an entry for u with a non-empty connection set; no entry has an empty set;
\* and addOnlineSocket(u, c) from u offline followed by removeOnlineSocket(u, c)
\* leaves u offline with no entry.
C1_RegistryEntries ==
  /\ \A u \in Users :
       isUserOnline(onlineSocketsByUser, u) <=> Held(onlineSocketsByUser, u) /= {}
  /\ \A u \in DOMAIN onlineSocketsByUser : onlineSocketsByUser[u] /= {}
  /\ ( /\ lastCall.fn = "remove" /\ lastCall.prevFn = "add"
       /\ lastCall.prevUserId = lastCall.userId
       /\ lastCall.prevSocketId = lastCall.socketId
       /\ Held(lastCall.prevBefore, lastCall.userId) = {} )
     => /\ lastCall.userId \notin DOMAIN onlineSocketsByUser
        /\ ~isUserOnline(onlineSocketsByUser, lastCall.userId)

C1_Witness ==
  /\ lastCall.fn = "remove" /\ lastCall.prevFn = "add"
  /\ lastCall.prevUserId = lastCall.userId
  /\ lastCall.prevSocketId = lastCall.socketId
  /\ Held(lastCall.prevBefore, lastCall.userId) = {}
  /\ lastCall.ret
  /\ \E u \in Users : isUserOnline(onlineSocketsByUser, u)

\* C10: addOnlineSocket(userId, connectionId) returns true iff the user had no
\* live connection registered immediately before the call, and after the call
\* connectionId is in the user's set; registering a second connection, or the
\* same connection id again, for an online user returns false.
C10_AddReturnsWasOffline ==
  lastCall.fn = "add" =>
    /\ lastCall.ret <=> (Held(lastCall.before, lastCall.userId) = {})
    /\ lastCall.socketId \in Held(onlineSocketsByUser, lastCall.userId)
    /\ Held(onlineSocketsByUser, lastCall.userId) =
         Held(lastCall.before, lastCall.userId) \cup {lastCall.socketId}

C10_Witness ==
  /\ lastCall.fn = "add"
  /\ lastCall.socketId \in Held(lastCall.before, lastCall.userId)
  /\ ~lastCall.ret
  /\ lastCall.prevFn = "add" /\ lastCall.prevUserId = lastCall.userId
  /\ lastCall.prevSocketId /= lastCall.socketId

\* The number of presence:update{userId, isOnline} emitted to a conversation's room
PresenceEmitted(userId, isOnline, conversationId) ==
  LET hits == {e \in BagToSet(broadcasts) :
                 /\ e.event = "presence:update"
                 /\ e.room = conversationRoom(conversationId)
                 /\ e.payload = [userId |-> userId, isOnline |-> isOnline]}
  IN BagCardinality([e \in hits |-> broadcasts[e]])

\* The number of emitPresenceForUser(userId, isOnline) calls so far
PresenceCalled(userId, isOnline) ==
  Cardinality({i \in 1..Len(presenceCalls[userId]) : presenceCalls[userId][i] = isOnline})

PresencePending(userId, isOnline) ==
  Cardinality({task \in presenceTasks : task.userId = userId /\ task.isOnline = isOnline})

\* Each step calls emitPresenceForUser(u, true) exactly when u goes from no live
\* connection to one, (u, false) exactly when u loses its last one, and not otherwise.
PresenceCallPerTransition ==
  \A u \in Users :
    presenceCalls'[u] =
      IF Live(u) = {} /\ Live(u)' /= {} THEN Append(presenceCalls[u], TRUE)
      ELSE IF Live(u) /= {} /\ Live(u)' = {} THEN Append(presenceCalls[u], FALSE)
      ELSE presenceCalls[u]

\* Each call emits once to each room of the user: never more than the calls, and
\* exactly the answered calls for a conversation the user participates in.
PresenceOncePerCall ==
  \A u \in Users, isOnline \in BOOLEAN, c \in Conversations :
    /\ PresenceEmitted(u, isOnline, c) + PresencePending(u, isOnline)
         <= PresenceCalled(u, isOnline)
    /\ ensureConversationAccess(c, u) =>
         PresenceEmitted(u, isOnline, c) + PresencePending(u, isOnline)
           = PresenceCalled(u, isOnline)

\* C2: over any interleaving of connects and disconnects of the connections of
\* a user, presence:update{isOnline:true} is broadcast once per offline->online
\* transition and presence:update{isOnline:false} once per online->offline
\* transition, and none for a connect or disconnect that is not the user's
\* first or last live connection.
C2_PresenceOncePerTransition ==
  /\ [][PresenceCallPerTransition]_vars
  /\ []PresenceOncePerCall

C2_Witness ==
  \E u \in Users, c \in Conversations, s1, s2 \in SocketIds :
    /\ sockets[s1] = [state |-> "closed", userId |-> u]
    /\ sockets[s2] = [state |-> "ready", userId |-> u]
    /\ presenceCalls[u] = <<TRUE>>
    /\ ensureConversationAccess(c, u)
    /\ PresenceEmitted(u, TRUE, c) = 1
    /\ PresenceEmitted(u, FALSE, c) = 0

\* What presence:batch must answer for `userIds` when the registry is `map`
BatchAnswer(userIds, map, ack) ==
  LET ids == {userIds[i] : i \in 1..Len(userIds)}
  IN IF Len(userIds) = 0 \/ Len(userIds) > 200
     THEN ack = socketError("Invalid payload", "flatten")
     ELSE (\A id \in ids : IsUuid(id)) =>
            /\ ack.ok
            /\ Len(ack.items) = Cardinality(ids)
            /\ {ack.items[i].userId : i \in 1..Len(ack.items)} = ids
            /\ \A i \in 1..Len(ack.items) :
                 ack.items[i].isOnline = (Held(map, ack.items[i].userId) /= {})

\* C6: presence:batch rejects a userIds list of 0 or more than 200 entries with
\* "Invalid payload"; for 1..200 ids it returns exactly one {userId, isOnline}
\* item per distinct id, each isOnline the registry's answer at that moment, and
\* it changes no state.
C6_PresenceBatch ==
  [][\A t \in Tasks :
       (tasks'[t] /= tasks[t] /\ tasks'[t].ev = "presence:batch") =>
         /\ tasks'[t].pc = "done"
         /\ BatchAnswer(tasks'[t].payload.userIds, onlineSocketsByUser, tasks'[t].ack)
         /\ UNCHANGED << onlineSocketsByUser, sockets, rooms, resync, presenceTasks,
                         presenceCalls, conversation_participants, messages,
                         message_edits, clock, broadcasts >>]_vars

C6_Witness ==
  \E t \in Tasks :
    /\ tasks[t].pc = "done" /\ tasks[t].ev = "presence:batch"
    /\ Len(tasks[t].payload.userIds) = 200
    /\ tasks[t].ack.ok
    /\ Len(tasks[t].ack.items) = 200
    /\ \E i \in 1..200 : tasks[t].ack.items[i].isOnline

-----------------------------------------------------------------------------
(* Properties of the access guard and of the message ledger *)

\* The store holds the participant row of the user in the conversation
Participant(conversationId, userId) ==
  \E p \in DOMAIN conversation_participants : p = <<conversationId, userId>>

NoAccess == [ok |-> FALSE, error |-> "No access to conversation", details |-> "null"]

\* Task t takes a step of the handler of `ev`
Steps(t, ev) == tasks[t].ev = ev /\ ~Free(t) /\ tasks'[t] /= tasks[t]

\* The message:new broadcasts so far
NewMessages == {e \in BagToSet(broadcasts) : e.event = "message:new"}

\* C3: a message:send by a user with no participant row in the target
\* conversation is acknowledged {ok:false, error:"No access to conversation"};
\* no message row is inserted, last_read_at is not updated and no message:new
\* is broadcast.
C3_SendNeedsParticipant ==
  [][\A t \in Tasks :
       /\ ( /\ Steps(t, "message:send") /\ tasks[t].pc = "access"
            /\ ~Participant(tasks[t].data.conversationId, tasks[t].userId) )
          => /\ tasks'[t].pc = "done"
             /\ tasks'[t].ack = NoAccess
             /\ UNCHANGED << messages, conversation_participants, broadcasts >>
       /\ ( /\ Steps(t, "message:send")
            /\ tasks'[t].pc \in {"insert", "read"} /\ tasks[t].pc = "access" )
          => Participant(tasks[t].data.conversationId, tasks[t].userId)
       /\ ( /\ Steps(t, "message:send")
            /\ \/ messages' /= messages
               \/ conversation_participants' /= conversation_participants
               \/ broadcasts' /= broadcasts )
          => tasks[t].pc \in {"insert", "read"}]_vars

C3_Witness ==
  \E t \in Tasks :
    /\ tasks[t].ev = "message:send" /\ tasks[t].pc = "done"
    /\ tasks[t].ack = NoAccess
    /\ tasks[t].payload.conversationId = 1
    /\ ~Participant(1, tasks[t].userId)
    /\ messages = << >>
    /\ NewMessages = {}
    /\ \A p \in DOMAIN conversation_participants : conversation_participants[p] = NULL

\* The message row exists and is soft-deleted
Deleted(messageId) ==
  messageId \in 1..Len(messages) /\ messages[messageId].deleted_at /= NULL

\* The number of message:deleted broadcasts so far
DeletedBroadcasts ==
  LET hits == {e \in BagToSet(broadcasts) : e.event = "message:deleted"}
  IN BagCardinality([e \in hits |-> broadcasts[e]])

\* C5: message:delete on a message whose deleted_at is already set is
\* acknowledged {ok:true, messageId, alreadyDeleted:true}; deleted_at is not
\* re-stamped, nothing is modified and no message:deleted is broadcast.
C5_DeleteIsIdempotent ==
  [][\A t \in Tasks :
       (Steps(t, "message:delete") /\ Deleted(tasks[t].data.messageId)) =>
         /\ tasks[t].pc = "load"
         /\ tasks'[t].pc = "done"
         /\ tasks'[t].ack = [ok |-> TRUE, messageId |-> tasks[t].data.messageId,
                             alreadyDeleted |-> TRUE]
         /\ UNCHANGED << messages, message_edits, conversation_participants,
                         clock, broadcasts >>]_vars

C5_Witness ==
  \E t \in Tasks :
    /\ tasks[t].ev = "message:delete" /\ tasks[t].pc = "done"
    /\ tasks[t].ack = [ok |-> TRUE, messageId |-> 1, alreadyDeleted |-> TRUE]
    /\ tasks[t].userId = messages[1].sender_user_id
    /\ messages[1].deleted_at >= StartClock
    /\ DeletedBroadcasts = 1

\* The outcome the checks of a delete by `userId` have on the store as it is:
\* the first that applies, in the order of the handler, or "" when all pass
DeleteOrder(messageId, userId) ==
  IF messageId \notin 1..Len(messages) THEN "Message not found"
  ELSE IF messages[messageId].deleted_at /= NULL THEN "alreadyDeleted"
  ELSE IF messages[messageId].sender_user_id /= userId THEN "Not your message"
  ELSE IF ~Participant(messages[messageId].conversation_id, userId)
       THEN "No access to conversation"
  ELSE ""

DeleteEvents == {"message:delete", "DELETE /messages/:id"}

\* What an acknowledgment of message:delete, or a response of DELETE
\* /messages/:id, reports: the route answers an already deleted message with
\* {ok:true} alone, and a delete it made with the id and deleted_at of the row
DeleteReported(task) ==
  IF task.ev = "message:delete"
  THEN IF ~task.ack.ok THEN task.ack.error
       ELSE IF \E f \in DOMAIN task.ack : f = "alreadyDeleted" THEN "alreadyDeleted"
       ELSE ""
  ELSE IF task.ack.status /= 200 THEN task.ack.json.error
       ELSE IF task.ack.json = [ok |-> TRUE] THEN "alreadyDeleted"
       ELSE ""

\* C9: message:delete checks in this order: a missing message is "Message not
\* found"; an already deleted one is the success {alreadyDeleted:true} for any
\* caller; a caller who is not the sender gets "Not your message"; a sender
\* without participant row gets "No access to conversation"; only when all
\* pass is deleted_at set.  DELETE /messages/:id applies the same order.
C9_DeleteCheckOrder ==
  [][/\ \A t \in Tasks, ev \in DeleteEvents :
          ( /\ Steps(t, ev) /\ tasks[t].pc \in {"load", "access"}
            /\ IsUuid(tasks[t].data.messageId) ) =>
            LET outcome == DeleteOrder(tasks[t].data.messageId, tasks[t].userId)
            IN /\ messages' = messages
               /\ IF tasks'[t].pc = "done"
                  THEN outcome /= "" /\ DeleteReported(tasks'[t]) = outcome
                  ELSE /\ tasks[t].pc = "load" =>
                            /\ outcome \in {"", "No access to conversation"}
                            /\ tasks'[t].pc = "access"
                       /\ tasks[t].pc = "access" =>
                            outcome = "" /\ tasks'[t].pc = "update"
     /\ \A m \in 1..Len(messages) :
          messages'[m] /= messages[m] =>
            \E t \in Tasks :
              /\ tasks[t].pc = "update" /\ tasks[t].data.messageId = m
              /\ tasks'[t].pc = "done"
              /\ messages[m].deleted_at = NULL
              /\ messages'[m] = [messages[m] EXCEPT !.deleted_at = clock]]_vars

C9_Witness ==
  \E t \in Tasks :
    /\ tasks[t].ev = "message:delete" /\ tasks[t].pc = "done"
    /\ tasks[t].ack = [ok |-> TRUE, messageId |-> 1, alreadyDeleted |-> TRUE]
    /\ tasks[t].userId /= messages[1].sender_user_id
    /\ ~Participant(messages[1].conversation_id, tasks[t].userId)
    /\ messages[1].deleted_at = StartClock - 1
    /\ DeletedBroadcasts = 0

EditEvents == {"message:edit", "PATCH /messages/:id"}

\* The error the checks of an edit by `userId` have on the store as it is: the
\* first that fails, in the documented order, or "" when all pass
EditOrder(messageId, userId) ==
  IF messageId \notin 1..Len(messages) THEN "Message not found"
  ELSE IF messages[messageId].deleted_at /= NULL THEN "Message is deleted"
  ELSE IF messages[messageId].sender_user_id /= userId THEN "Not your message"
  ELSE IF ~Participant(messages[messageId].conversation_id, userId)
       THEN "No access to conversation"
  ELSE ""

\* The error an acknowledgment (message:edit) or a response (PATCH) reports
EditReported(task) ==
  IF task.ev = "message:edit"
  THEN IF task.ack.ok THEN "" ELSE task.ack.error
  ELSE IF task.ack.status = 200 THEN "" ELSE task.ack.json.error

\* C8: for message:edit and PATCH /messages/:id the reported error follows the
\* precedence "Message not found", "Message is deleted", "Not your message",
\* "No access to conversation": when several checks fail the first is the one
\* reported, and in every failing case no edit row is inserted and the
\* message is unchanged.
C8_EditCheckOrder ==
  [][\A t \in Tasks, ev \in EditEvents :
       ( /\ Steps(t, ev) /\ tasks[t].pc \in {"load", "access"}
         /\ IsUuid(tasks[t].data.messageId) ) =>
         LET error == EditOrder(tasks[t].data.messageId, tasks[t].userId)
         IN IF tasks'[t].pc = "done"
            THEN /\ error /= ""
                 /\ EditReported(tasks'[t]) = error
                 /\ UNCHANGED << messages, message_edits >>
            ELSE /\ tasks[t].pc = "load" =>
                      /\ error \in {"", "No access to conversation"}
                      /\ tasks'[t].pc = "access"
                 /\ tasks[t].pc = "access" =>
                      error = "" /\ tasks'[t].pc = "version"]_vars

C8_Witness ==
  \E t \in Tasks :
    /\ tasks[t].ev = "message:edit" /\ tasks[t].pc = "done"
    /\ tasks[t].ack = [ok |-> FALSE, error |-> "Message is deleted", details |-> "null"]
    /\ tasks[t].payload.messageId = 1
    /\ tasks[t].userId /= messages[1].sender_user_id
    /\ ~Participant(messages[1].conversation_id, tasks[t].userId)
    /\ message_edits = {}
    /\ messages[1].body = <<"a">> /\ messages[1].edited_at = NULL

\* The edit rows of a message
EditsOf(messageId) == {e \in message_edits : e.message_id = messageId}

\* The versions of the edit rows of every message are 1..k without gap or
\* duplicate, and an edit that has just succeeded left its new body in the row.
EditVersions ==
  /\ \A m \in 1..Len(messages) :
       /\ {e.version : e \in EditsOf(m)} = 1..Cardinality(EditsOf(m))
       /\ \A e \in EditsOf(m) : \A f \in EditsOf(m) : e.version = f.version => e = f
  /\ \A t \in Tasks :
       (tasks[t].pc = "done" /\ tasks[t].ev \in EditEvents /\ EditReported(tasks[t]) = "") =>
          LET m == tasks[t].payload.messageId
              body == IF tasks[t].ev = "message:edit" THEN Trim(tasks[t].payload.body)
                      ELSE tasks[t].payload.body
          IN /\ messages[m].body = body
             /\ messages[m].edited_at /= NULL
             /\ EditsOf(m) /= {}

\* Edit rows are only added, one per edit, by the edit's history insert: the
\* k-th row of a message has version k and the body the message has before
\* that edit's update; the update then stores the edit's new body.
EditHistoryStep ==
  /\ message_edits \subseteq message_edits'
  /\ message_edits' /= message_edits =>
       \E t \in Tasks, e \in message_edits' :
         /\ message_edits' = message_edits \cup {e}
         /\ tasks[t].pc = "history" /\ tasks'[t].pc = "update"
         /\ e.message_id = tasks[t].data.messageId
         /\ e.version = Cardinality(EditsOf(e.message_id)) + 1
         /\ e.body = messages[e.message_id].body
         /\ e.edited_by_user_id = tasks[t].userId
         /\ messages' = messages
  /\ \A t \in Tasks :
       (tasks[t].pc = "update" /\ tasks'[t] /= tasks[t]) =>
         /\ tasks'[t].pc = "done" /\ EditReported(tasks'[t]) = ""
         /\ messages' = [messages EXCEPT ![tasks[t].data.messageId] =
                           [@ EXCEPT !.body = tasks[t].data.body, !.edited_at = clock]]

\* C4: after n sequential successful edits by its sender of a message with no
\* prior edits, the message's edit rows have exactly the versions 1..n, the
\* row of version k holds the body the message had immediately before the
\* k-th edit, and the message's body is the n-th edit's new body.
C4_EditHistoryVersions == []EditVersions /\ [][EditHistoryStep]_vars

C4_Witness ==
  /\ {[version |-> e.version, body |-> e.body, by |-> e.edited_by_user_id] :
        e \in EditsOf(1)}
       = {[version |-> 1, body |-> <<"a">>, by |-> 1],
          [version |-> 2, body |-> <<"b">>, by |-> 1]}
  /\ messages[1].body = <<"a">>
  /\ \E t \in Tasks :
       /\ tasks[t].ev = "message:edit" /\ tasks[t].pc = "done" /\ tasks[t].ack.ok
       /\ tasks[t].payload.body = <<"a">>

-----------------------------------------------------------------------------
(* Properties of the conversation rooms *)

\* The conversation rooms a step adds connection s to
RoomsGained(s) ==
  {c \in Conversations :
     /\ <<s, conversationRoom(c)>> \in rooms'
     /\ <<s, conversationRoom(c)>> \notin rooms}

\* C7: conversation:join by a user without participant row is acknowledged
\* "No access to conversation" and the connection is not added to the room; a
\* connection is added to a conversation room only by the connect-time resync
\* or by a conversation:join that read the user's participant row.
C7_RoomsNeedParticipant ==
  [][/\ \A t \in Tasks :
          ( /\ Steps(t, "conversation:join") /\ tasks[t].pc = "access"
            /\ ~Participant(tasks[t].data.conversationId, tasks[t].userId) )
          => /\ tasks'[t].pc = "done"
             /\ tasks'[t].ack = NoAccess
             /\ rooms' = rooms
     /\ \A s \in SocketIds, c \in Conversations :
          c \in RoomsGained(s) =>
            /\ Participant(c, sockets[s].userId)
            /\ \/ resync[s] = "pending" /\ resync'[s] = "done"
               \/ \E t \in Tasks :
                    /\ Steps(t, "conversation:join") /\ tasks[t].pc = "access"
                    /\ tasks[t].sock = s /\ tasks[t].data.conversationId = c
                    /\ tasks'[t].ack = [ok |-> TRUE, conversationId |-> c]]_vars

C7_Witness ==
  \E t \in Tasks :
    /\ tasks[t].ev = "conversation:join" /\ tasks[t].pc = "done"
    /\ tasks[t].ack = NoAccess
    /\ tasks[t].payload.conversationId = 1
    /\ ~Participant(1, tasks[t].userId)
    /\ sockets[tasks[t].sock].state = "ready"
    /\ resync[tasks[t].sock] = "done"
    /\ <<tasks[t].sock, conversationRoom(1)>> \notin rooms

-----------------------------------------------------------------------------
(* Further properties of the presence registry *)

\* C11: removeOnlineSocket(userId, connectionId) returns true iff the user had
\* an entry before the call and the removal leaves the user's set empty, and
\* the entry is then deleted; it returns false when the user keeps another
\* live connection and when the user has no entry; it removes no connection
\* id other than the one given.
C11_RemoveReturnsBecameOffline ==
  lastCall.fn = "remove" =>
    LET u == lastCall.userId
        hadEntry == \E k \in DOMAIN lastCall.before : k = u
    IN /\ lastCall.ret <=>
            (hadEntry /\ Held(lastCall.before, u) \ {lastCall.socketId} = {})
       /\ lastCall.ret => ~(\E k \in DOMAIN onlineSocketsByUser : k = u)
       /\ ~hadEntry => ~lastCall.ret /\ onlineSocketsByUser = lastCall.before
       /\ Held(onlineSocketsByUser, u) = Held(lastCall.before, u) \ {lastCall.socketId}
       /\ \A v \in Users \ {u} :
            Held(onlineSocketsByUser, v) = Held(lastCall.before, v)

C11_Witness ==
  /\ lastCall.fn = "remove" /\ ~lastCall.ret
  /\ lastCall.socketId \in Held(lastCall.before, lastCall.userId)
  /\ Cardinality(Held(lastCall.before, lastCall.userId)) = 2
  /\ Cardinality(Held(onlineSocketsByUser, lastCall.userId)) = 1
  /\ \E v \in Users \ {lastCall.userId} : Held(onlineSocketsByUser, v) /= {}

-----------------------------------------------------------------------------
(* Further properties of the message ledger *)

MutateEvents == {"message:edit", "message:delete"}

NotYours == [ok |-> FALSE, error |-> "Not your message", details |-> "null"]

\* The message row exists and is not soft-deleted
Kept(messageId) ==
  messageId \in 1..Len(messages) /\ messages[messageId].deleted_at = NULL

\* C12: a message's body, edited_at and deleted_at are changed only by an edit
\* or delete issued under the identity of its sender; an edit or delete of a
\* non-deleted message by another user is answered "Not your message", leaves
\* the message row and its edit history unchanged and broadcasts nothing.
C12_OnlySenderMutates ==
  [][/\ \A m \in 1..Len(messages) :
          ( \/ messages'[m].body /= messages[m].body
            \/ messages'[m].edited_at /= messages[m].edited_at
            \/ messages'[m].deleted_at /= messages[m].deleted_at ) =>
            \E t \in Tasks, ev \in MutateEvents :
              /\ Steps(t, ev)
              /\ tasks[t].data.messageId = m
              /\ tasks[t].userId = messages[m].sender_user_id
     /\ \A t \in Tasks, ev \in MutateEvents :
          ( /\ Steps(t, ev) /\ tasks[t].pc = "load"
            /\ Kept(tasks[t].data.messageId)
            /\ messages[tasks[t].data.messageId].sender_user_id /= tasks[t].userId ) =>
            /\ tasks'[t].pc = "done"
            /\ tasks'[t].ack = NotYours
            /\ UNCHANGED << messages, message_edits, conversation_participants,
                            clock, broadcasts >>]_vars

C12_Witness ==
  \E t \in Tasks :
    /\ tasks[t].ev = "message:delete" /\ tasks[t].pc = "done"
    /\ tasks[t].ack = NotYours
    /\ tasks[t].payload.messageId = 1
    /\ tasks[t].userId /= messages[1].sender_user_id
    /\ Participant(messages[1].conversation_id, tasks[t].userId)
    /\ Kept(1)
    /\ message_edits = {}
    /\ DeletedBroadcasts = 0

\* The message:updated broadcasts that carry message `messageId`
UpdatedBroadcasts(messageId) ==
  LET hits == {e \in BagToSet(broadcasts) :
                 e.event = "message:updated" /\ e.payload.message.id = messageId}
  IN [e \in hits |-> broadcasts[e]]

\* The socket's connection attempt was rejected with this reason
Rejected(s, reason) ==
  sockets[s] = [state |-> "rejected", userId |-> 0, error |-> reason]

\* C14: a connection attempt with no credential is rejected by the handshake
\* middleware with "Missing token", one whose credential fails verification
\* with "Invalid token", one whose verified payload is not an object with a
\* userId with "Invalid token payload"; the rejection leaves the presence
\* registry, the rooms, the pending presence refreshes and the emitted events
\* (presence:update, chat:ready) as they were, and a rejected socket stays
\* rejected, in no room and in no registry entry.
C14_RejectedAtHandshake ==
  [][\A s \in SocketIds :
       /\ sockets[s].state = "new" /\ handshake'[s] /= NoHandshake =>
            LET token == tokenFromHandshake(handshake'[s])
                decoded == jwtVerify(token)
            IN /\ token = "null" => Rejected(s, "Missing token")'
               /\ token /= "null" /\ decoded.throws =>
                    Rejected(s, "Invalid token")'
               /\ token /= "null" /\ ~decoded.throws
                    /\ (~decoded.object \/ decoded.userId = 0) =>
                    Rejected(s, "Invalid token payload")'
               /\ sockets'[s].state = "rejected" =>
                    UNCHANGED << onlineSocketsByUser, rooms, presenceTasks,
                                 presenceCalls, broadcasts >>
       /\ sockets[s].state = "rejected" =>
            /\ sockets'[s] = sockets[s]
            /\ \A m \in rooms' : m[1] /= s
            /\ \A u \in Users : s \notin Held(onlineSocketsByUser', u)
            /\ \A e \in BagToSet(broadcasts') : e.room /= <<"socket", s>>]_vars

C14_Witness ==
  /\ sockets[1] = [state |-> "ready", userId |-> 1]
  /\ handshake[1] /= NoHandshake
  /\ Rejected(2, "Invalid token payload")
  /\ handshake[2].auth = [kind |-> "string", bearer |-> TRUE, token |-> ""]
  /\ Held(onlineSocketsByUser, 1) = {1}
  /\ \A u \in Users \ {1} : Held(onlineSocketsByUser, u) = {}
  /\ \E m \in rooms : m[1] = 1
  /\ \E e \in BagToSet(broadcasts) : e.event = "chat:ready"

\* The events emitted by the step
Emitted == BagToSet(broadcasts') \ BagToSet(broadcasts)

\* C15: the identity of a connection is fixed at the handshake: the userId of
\* a connected socket never changes, and every step of one of its handlers
\* acts as that user whatever the payload says: an inserted message has it
\* as sender_user_id, an edit row as edited_by_user_id, only its own
\* last_read_at is set, a changed message is one it sent, the access answer
\* is the one of its participant row, and message:deleted and
\* conversation:read name it as deletedByUserId and userId.
C15_IdentityOfConnection ==
  [][/\ \A s \in SocketIds :
          sockets[s].state \in {"ready", "closed"} => sockets'[s].userId = sockets[s].userId
     /\ \A t \in Tasks :
          tasks'[t] /= tasks[t] /\ tasks'[t].sock \in SocketIds =>
            LET u == sockets[tasks'[t].sock].userId
            IN /\ tasks'[t].userId = u
               /\ \A m \in (Len(messages) + 1)..Len(messages') :
                    messages'[m].sender_user_id = u
               /\ \A m \in 1..Len(messages) :
                    messages'[m] /= messages[m] => messages[m].sender_user_id = u
               /\ \A e \in message_edits' \ message_edits : e.edited_by_user_id = u
               /\ \A q \in DOMAIN conversation_participants :
                    conversation_participants'[q] /= conversation_participants[q]
                      => q[2] = u
               /\ tasks[t].pc = "access" =>
                    (tasks'[t].ack = NoAccess
                       <=> ~Participant(IF tasks[t].ev \in MutateEvents
                                        THEN tasks[t].existing.conversation_id
                                        ELSE tasks[t].data.conversationId, u))
               /\ \A e \in Emitted :
                    /\ e.event = "message:new" => e.payload.message.sender_user_id = u
                    /\ e.event = "message:deleted" => e.payload.deletedByUserId = u
                    /\ e.event = "conversation:read" => e.payload.userId = u]_vars

C15_Witness ==
  /\ sockets[1] = [state |-> "ready", userId |-> 1]
  /\ sockets[2] = [state |-> "ready", userId |-> 2]
  /\ Len(messages) = 1
  /\ messages[1].sender_user_id = 2
  /\ messages[1].deleted_at /= NULL
  /\ \E t \in Tasks :
       /\ tasks[t].pc = "done" /\ tasks[t].ev = "message:delete"
       /\ tasks[t].sock = 2 /\ tasks[t].payload.userId = 1
       /\ tasks[t].ack.ok
  /\ \E e \in BagToSet(broadcasts) :
       e.event = "message:deleted" /\ e.payload.deletedByUserId = 2

SocketEvents ==
  {"presence:batch", "conversation:join", "conversation:leave", "message:send",
   "message:edit", "message:delete", "conversation:read"}

\* The payload is not what the event documents: a missing key, an id that
\* is no uuid, a body whose trimmed length is not 1..3000, a userIds list
\* whose length is not 1..200
FailsValidation(ev, payload) ==
  LET BadId(key) == ~Has(payload, key) \/ payload[key] \notin Nat \ {0}
      BadBody == \/ ~Has(payload, "body")
                 \/ Len(Trim(payload.body)) \notin BodyMin..BodyMax
  IN CASE ev = "presence:batch" ->
            \/ ~Has(payload, "userIds")
            \/ Len(payload.userIds) \notin PresenceBatchMin..PresenceBatchMax
            \/ \E i \in 1..Len(payload.userIds) : payload.userIds[i] = 0
       [] ev \in {"conversation:join", "conversation:leave", "conversation:read"} ->
            BadId("conversationId")
       [] ev = "message:send" -> BadId("conversationId") \/ BadBody
       [] ev = "message:edit" -> BadId("messageId") \/ BadBody
       [] ev = "message:delete" -> BadId("messageId")

InvalidPayload == [ok |-> FALSE, error |-> "Invalid payload", details |-> "flatten"]

\* C16: an inbound event whose payload fails validation is acknowledged
\* {ok:false, error:"Invalid payload"} when the client gave a callback, and
\* with or without callback the handler ends there: the store, the rooms,
\* the broadcasts, the registry and the sockets are as before, so the
\* connection stays ready.
C16_InvalidPayloadIsInert ==
  [][\A t \in Tasks :
       ( /\ Free(t) /\ tasks'[t] /= tasks[t]
         /\ tasks'[t].ev \in SocketEvents
         /\ FailsValidation(tasks'[t].ev, tasks'[t].payload) ) =>
           /\ tasks'[t].pc = "done"
           /\ tasks'[t].cb => tasks'[t].ack = InvalidPayload
           /\ ~tasks'[t].cb => tasks'[t].ack = NoAck
           /\ sockets'[tasks'[t].sock].state = "ready"
           /\ UNCHANGED << onlineSocketsByUser, sockets, rooms, resync,
                           presenceTasks, presenceCalls,
                           conversation_participants, messages, message_edits,
                           clock, broadcasts >>]_vars

\* A message:send with a blank body and no callback ended while another
\* handler ran, and a conversation:read that arrived after it succeeded
C16_Witness ==
  /\ tasks[2].pc = "done" /\ tasks[2].ev = "message:send"
  /\ tasks[2].payload = [conversationId |-> 1, body |-> <<" ">>]
  /\ ~tasks[2].cb /\ tasks[2].ack = NoAck
  /\ tasks[1].pc = "done" /\ tasks[1].ev = "conversation:read"
  /\ tasks[1].cb /\ tasks[1].ack.ok
  /\ Len(messages) = 1
  /\ sockets[1].state = "ready"

\* The connections that are in the room the event is emitted to
Receivers(e) == {s \in SocketIds : <<s, e.room>> \in rooms}

\* C17: a message:send that passes validation and the access check inserts
\* exactly one message row, whose sender is the user of the connection, whose
\* conversation is the payload's and whose body is the trimmed input; then it
\* sets the sender's last_read_at in that conversation, emits exactly one
\* message:new carrying the stored message to the room of the conversation,
\* and acknowledges {ok:true, message} with the same message.
C17_SendDelivers ==
  [][\A t \in Tasks :
       Steps(t, "message:send") =>
         LET c == tasks[t].payload.conversationId
             u == sockets[tasks[t].sock].userId
         IN /\ tasks[t].pc = "access" => UNCHANGED << messages, broadcasts >>
            /\ tasks[t].pc = "insert" =>
                 LET row == messages'[Len(messages')]
                 IN /\ Len(messages') = Len(messages) + 1
                    /\ SubSeq(messages', 1, Len(messages)) = messages
                    /\ row.conversation_id = c /\ row.sender_user_id = u
                    /\ row.body = Trim(tasks[t].payload.body)
                    /\ row.edited_at = NULL /\ row.deleted_at = NULL
                    /\ tasks'[t].pc = "read"
                    /\ UNCHANGED broadcasts
            /\ tasks[t].pc = "read" =>
                 /\ tasks'[t].pc = "done" /\ tasks'[t].ack.ok
                 /\ LET message == tasks'[t].ack.message
                    IN /\ tasks'[t].ack = [ok |-> TRUE, message |-> message]
                       /\ message.id \in 1..Len(messages)
                       /\ messages[message.id] = message
                       /\ message.conversation_id = c /\ message.sender_user_id = u
                       /\ message.body = Trim(tasks[t].payload.body)
                       /\ broadcasts' = broadcasts (+) SetToBag(
                            {[event |-> "message:new", room |-> conversationRoom(c),
                              payload |-> [message |-> message]]})
                 /\ Participant(c, u)
                 /\ conversation_participants'[<<c, u>>] = clock /\ clock /= NULL
                 /\ \A q \in DOMAIN conversation_participants \ {<<c, u>>} :
                      conversation_participants'[q] = conversation_participants[q]
                 /\ UNCHANGED messages
            /\ tasks'[t].pc = "done" /\ tasks'[t].ack.ok => tasks[t].pc = "read"]_vars

\* The second client sent " b " to the conversation both clients have joined
C17_Witness ==
  /\ tasks[1].pc = "done" /\ tasks[1].ev = "message:send" /\ tasks[1].sock = 2
  /\ tasks[1].payload.body = <<" ", "b", " ">>
  /\ tasks[1].ack.ok
  /\ Len(messages) = 1 /\ messages[1].body = <<"b">>
  /\ messages[1].sender_user_id = sockets[2].userId
  /\ conversation_participants[<<1, sockets[2].userId>>] /= NULL
  /\ \E e \in BagToSet(broadcasts) :
       /\ e.event = "message:new" /\ e.payload.message = messages[1]
       /\ CopiesIn(e, broadcasts) = 1
       /\ Receivers(e) = {1, 2}
  /\ sockets[1].userId /= sockets[2].userId

\* C18: a conversation:read by a user with a participant row for the
\* conversation sets that row's last_read_at to now and changes no other
\* participant row, no message and no edit row; it emits conversation:read
\* {conversationId, userId, readAt} to the room of the conversation and
\* acknowledges {ok:true, conversationId, readAt}, readAt being the stored,
\* non-null last_read_at.  Without the row the acknowledgment is "No access
\* to conversation" and nothing is changed or emitted.
C18_ReadMarksOwnRow ==
  [][\A t \in Tasks :
       Steps(t, "conversation:read") =>
         LET c == tasks[t].payload.conversationId
             u == sockets[tasks[t].sock].userId
         IN /\ tasks[t].pc = "access" =>
                 /\ UNCHANGED << conversation_participants, messages,
                                 message_edits, broadcasts, rooms >>
                 /\ IF Participant(c, u)
                    THEN tasks'[t].pc = "update"
                    ELSE tasks'[t].pc = "done" /\ tasks'[t].ack = NoAccess
            /\ tasks[t].pc = "update" =>
                 /\ Participant(c, u)
                 /\ DOMAIN conversation_participants' = DOMAIN conversation_participants
                 /\ conversation_participants'[<<c, u>>] = clock /\ clock /= NULL
                 /\ \A q \in DOMAIN conversation_participants \ {<<c, u>>} :
                      conversation_participants'[q] = conversation_participants[q]
                 /\ UNCHANGED << messages, message_edits, rooms >>
                 /\ LET readAt == conversation_participants'[<<c, u>>]
                    IN /\ broadcasts' = broadcasts (+) SetToBag(
                            {[event |-> "conversation:read", room |-> conversationRoom(c),
                              payload |-> [conversationId |-> c, userId |-> u,
                                           readAt |-> readAt]]})
                       /\ tasks'[t].pc = "done"
                       /\ tasks'[t].ack =
                            [ok |-> TRUE, conversationId |-> c, readAt |-> readAt]]_vars

\* The second user marked conversation 1 read after the first one had; the
\* first user's last_read_at is the earlier one
C18_Witness ==
  /\ tasks[1].pc = "done" /\ tasks[1].ev = "conversation:read"
  /\ sockets[tasks[1].sock].userId = 2
  /\ Participant(1, 1) /\ Participant(1, 2)
  /\ conversation_participants[<<1, 1>>] = StartClock
  /\ conversation_participants[<<1, 2>>] = StartClock + 1
  /\ tasks[1].ack = [ok |-> TRUE, conversationId |-> 1, readAt |-> StartClock + 1]
  /\ \E e \in BagToSet(broadcasts) :
       /\ e.event = "conversation:read" /\ e.payload.userId = 2
       /\ e.payload.readAt = StartClock + 1
       /\ Receivers(e) /= {}

\* C19: a successful message:delete sets deleted_at of the message and
\* nothing else: the row keeps its id, body, sender, conversation and
\* timestamps, and no other row changes; no step of any operation removes a
\* message row or changes its id, sender or conversation; the message:deleted
\* event carries messageId, conversationId, deletedAt and deletedByUserId, the
\* acknowledgment the id, conversation and deletion time of the message, and
\* neither carries the body.
C19_DeleteKeepsTheRow ==
  [][/\ Len(messages') >= Len(messages)
     /\ \A m \in 1..Len(messages) :
          /\ messages'[m].id = messages[m].id
          /\ messages'[m].sender_user_id = messages[m].sender_user_id
          /\ messages'[m].conversation_id = messages[m].conversation_id
          /\ messages'[m].created_at = messages[m].created_at
     /\ \A e \in Emitted :
          e.event = "message:deleted" =>
            /\ DOMAIN e.payload =
                 {"messageId", "conversationId", "deletedAt", "deletedByUserId"}
            /\ e.payload.messageId \in 1..Len(messages)
            /\ e.payload.conversationId = messages[e.payload.messageId].conversation_id
            /\ e.payload.deletedAt = messages'[e.payload.messageId].deleted_at
            /\ e.payload.deletedAt /= NULL
     /\ \A t \in Tasks :
          Steps(t, "message:delete") /\ tasks'[t].pc = "done" /\ tasks'[t].ack.ok
            /\ ~Has(tasks'[t].ack, "alreadyDeleted") =>
              LET m == tasks[t].payload.messageId
              IN /\ messages[m].deleted_at = NULL
                 /\ messages' = [messages EXCEPT ![m].deleted_at = clock]
                 /\ clock /= NULL
                 /\ UNCHANGED << message_edits, conversation_participants >>
                 /\ \E e \in Emitted :
                      e.event = "message:deleted" /\ e.payload.messageId = m
                 /\ DOMAIN tasks'[t].ack = {"ok", "message"}
                 /\ tasks'[t].ack.message =
                      [id |-> m, conversation_id |-> messages[m].conversation_id,
                       deleted_at |-> messages'[m].deleted_at]]_vars

\* The message sent as " b " was deleted by its sender and is still there
C19_Witness ==
  /\ Len(messages) = 1
  /\ messages[1].body = <<"b">> /\ messages[1].deleted_at /= NULL
  /\ messages[1].sender_user_id = sockets[1].userId
  /\ tasks[1].pc = "done" /\ tasks[1].ev = "message:delete"
  /\ tasks[1].ack = [ok |-> TRUE,
                     message |-> [id |-> 1, conversation_id |-> 1,
                                  deleted_at |-> messages[1].deleted_at]]
  /\ \E e \in BagToSet(broadcasts) :
       e.event = "message:deleted" /\ e.payload.messageId = 1

GuardedEvents == {"message:send", "message:edit", "message:delete", "conversation:read"}

\* The conversation the running handler acts on
ConversationOf(task) ==
  IF task.ev \in MutateEvents
  THEN (IF task.pc = "load"
        THEN (IF task.data.messageId \in 1..Len(messages)
              THEN messages[task.data.messageId].conversation_id ELSE 0)
        ELSE task.existing.conversation_id)
  ELSE task.data.conversationId

\* C20: removing the participant row (C, u) leaves the rooms of u's
\* connections as they are, and from then on every message:send and
\* conversation:read on C and every message:edit and message:delete of a
\* non-deleted message of u in C ends at the access check with "No access to
\* conversation", with the store, the rooms and the broadcasts unchanged,
\* whether or not the connection is still in C's room: no handler is past
\* its access check for a conversation its user has no row in.
C20_RevokedUserIsRefused ==
  [][/\ DOMAIN conversation_participants' /= DOMAIN conversation_participants
          => UNCHANGED << rooms, sockets >>
     /\ \A t \in Tasks :
          tasks[t].ev \in GuardedEvents /\ ~Free(t) =>
            LET c == ConversationOf(tasks[t])
                u == sockets[tasks[t].sock].userId
            IN /\ tasks[t].pc \notin {"load", "access"} => Participant(c, u)
               /\ Steps(t, tasks[t].ev) /\ ~Participant(c, u) =>
                    /\ UNCHANGED << conversation_participants, messages,
                                    message_edits, clock, broadcasts, rooms >>
                    /\ tasks[t].pc = "access" =>
                         tasks'[t].pc = "done" /\ tasks'[t].ack = NoAccess
                    /\ ( /\ tasks[t].pc = "load"
                         /\ Kept(tasks[t].data.messageId)
                         /\ messages[tasks[t].data.messageId].sender_user_id = u )
                         => tasks'[t].pc = "access"]_vars

\* The sender of message 1 lost the participant row, is still in the room
\* of the conversation, and the delete of the message was refused
C20_Witness ==
  /\ sockets[1].state = "ready"
  /\ <<1, conversationRoom(1)>> \in rooms
  /\ ~Participant(1, sockets[1].userId)
  /\ Kept(1) /\ messages[1].sender_user_id = sockets[1].userId
  /\ messages[1].conversation_id = 1
  /\ tasks[1].pc = "done" /\ tasks[1].ev = "message:delete"
  /\ tasks[1].payload.messageId = 1
  /\ tasks[1].ack = NoAccess
  /\ DeletedBroadcasts = 0

\* C21: a conversation:leave with a valid conversation id is acknowledged
\* {ok:true, conversationId} whether or not the user has a participant row
\* and whether or not the connection is in the room; it takes this connection
\* out of the room of that conversation and changes no other room membership,
\* no participant row, no message, no edit row, nothing of the presence
\* registry and emits nothing.
C21_LeaveIsUnguarded ==
  [][\A t \in Tasks :
       ( /\ Free(t) /\ tasks'[t] /= tasks[t]
         /\ tasks'[t].ev = "conversation:leave"
         /\ ~FailsValidation("conversation:leave", tasks'[t].payload) ) =>
           LET c == tasks'[t].payload.conversationId
               s == tasks'[t].sock
           IN /\ tasks'[t].pc = "done"
              /\ tasks'[t].ack = [ok |-> TRUE, conversationId |-> c]
              /\ rooms' = rooms \ {<<s, conversationRoom(c)>>}
              /\ UNCHANGED << conversation_participants, messages, message_edits,
                              onlineSocketsByUser, sockets, presenceTasks,
                              presenceCalls, broadcasts >>]_vars

\* The first client, without a participant row and outside the room, left
\* conversation 1; the second client is still in that room
C21_Witness ==
  /\ tasks[1].pc = "done" /\ tasks[1].ev = "conversation:leave"
  /\ tasks[1].sock = 1 /\ tasks[1].payload.conversationId = 1
  /\ tasks[1].ack = [ok |-> TRUE, conversationId |-> 1]
  /\ ~Participant(1, sockets[1].userId)
  /\ <<1, userRoom(sockets[1].userId)>> \in rooms
  /\ sockets[2].state = "ready"
  /\ <<2, conversationRoom(1)>> \in rooms

\* The conversations about the listing, OPEN or CLOSED, with both users as
\* participants
Shared(listingId, userId, ownerId) ==
  {c \in DOMAIN conversations :
     /\ conversations[c].listing_id = listingId
     /\ conversations[c].status \in {"OPEN", "CLOSED"}
     /\ Participant(c, userId) /\ Participant(c, ownerId)}

\* C22: conversation creation is idempotent: at most one conversation with
\* status OPEN or CLOSED about listing 1 has both the inquirer (user 2) and
\* the owner (user 1) as participants, and a POST /conversations answered
\* while one exists answers that conversation with reused:true.
C22_CreationIsIdempotent ==
  /\ Cardinality(Shared(1, 2, 1)) <= 1
  /\ \A t \in Tasks :
       ( /\ tasks[t].pc = "done" /\ tasks[t].ev = "POST /conversations"
         /\ tasks[t].ack.status = 200 /\ ~tasks[t].ack.json.reused ) =>
           Shared(1, 2, 1) = {tasks[t].ack.json.conversationId}
              /\ \A u \in Tasks \ {t} :
                   ( /\ tasks[u].pc = "done" /\ tasks[u].ev = "POST /conversations"
                     /\ tasks[u].ack.status = 200 ) => tasks[u].ack.json.reused

\* Two requests of the inquirer were both answered with a new conversation
C22_Witness ==
  /\ Shared(1, 2, 1) = {1, 2}
  /\ \A t \in Tasks :
       /\ tasks[t].pc = "done" /\ tasks[t].ev = "POST /conversations"
       /\ tasks[t].userId = 2
       /\ tasks[t].ack.status = 200 /\ ~tasks[t].ack.json.reused
  /\ tasks[1].ack.json.conversationId /= tasks[2].ack.json.conversationId

\* C23: every stored message body is trimmed and 1 to 3000 characters long,
\* whichever entry point wrote it.
C23_StoredBodiesAreTrimmed ==
  \A m \in 1..Len(messages) :
    /\ messages[m].body = Trim(messages[m].body)
    /\ Len(messages[m].body) \in BodyMin..BodyMax

\* A message whose body is one space was stored by POST
\* /conversations/:id/messages and answered 200
C23_Witness ==
  /\ Len(messages) = 1 /\ messages[1].body = <<" ">>
  /\ tasks[1].pc = "done" /\ tasks[1].ev = "POST /conversations/:id/messages"
  /\ tasks[1].ack.status = 200
  /\ tasks[1].ack.json.body = <<" ">>

\* The handler in slot t edits a kept message of its own user, who has access
\* to the conversation, to the body the message has
SameBodyEdit(t) ==
  LET m == tasks[t].data.messageId
  IN /\ Kept(m)
     /\ messages[m].sender_user_id = tasks[t].userId
     /\ Participant(messages[m].conversation_id, tasks[t].userId)
     /\ messages[m].body = tasks[t].data.body

\* C24: a message:edit whose new body equals the message's current body is not
\* rejected: the handler ends only with {ok:true}, its history insert adds one
\* message_edits row with the next version holding that same body, and its
\* update sets edited_at, leaves the body as it was and broadcasts
\* message:updated with the row.
C24_IdenticalEditSucceeds ==
  [][\A t \in Tasks :
       Steps(t, "message:edit") /\ SameBodyEdit(t) =>
         LET m == tasks[t].data.messageId
         IN /\ tasks'[t].pc = "done" => tasks[t].pc = "update"
            /\ tasks[t].pc = "history" =>
                 /\ Cardinality(message_edits') = Cardinality(message_edits) + 1
                 /\ \E e \in message_edits' \ message_edits :
                      /\ e.message_id = m
                      /\ e.version = MaxVersion(m) + 1
                      /\ e.body = messages[m].body
            /\ tasks[t].pc = "update" =>
                 /\ messages'[m].body = messages[m].body
                 /\ messages'[m].edited_at = clock /\ clock /= NULL
                 /\ tasks'[t].pc = "done"
                 /\ tasks'[t].ack = socketOk([message |-> messages'[m]])
                 /\ broadcasts' = broadcasts (+) SetToBag(
                      {Emit("message:updated",
                            conversationRoom(messages[m].conversation_id),
                            [message |-> messages'[m]])})]_vars

\* Message 1, sent as "a", was edited to "a" twice: two history rows hold "a"
C24_Witness ==
  /\ Len(messages) = 1 /\ messages[1].body = <<"a">>
  /\ messages[1].edited_at /= NULL
  /\ {[version |-> e.version, body |-> e.body] : e \in EditsOf(1)} =
       {[version |-> 1, body |-> <<"a">>], [version |-> 2, body |-> <<"a">>]}
  /\ BagCardinality(UpdatedBroadcasts(1)) = 2
  /\ \E t \in Tasks :
       /\ tasks[t].ev = "message:edit" /\ tasks[t].pc = "done"
       /\ tasks[t].ack = socketOk([message |-> messages[1]])

\* C25: no two message_edits rows share (message_id, version); of two
\* concurrent edits that computed the same next version, the one whose history
\* insert comes second is acknowledged {ok:false} and changes neither the
\* history, nor the message's body and edited_at, nor the broadcasts.
C25_VersionCollisionHasOneWinner ==
  [][/\ \A e, f \in message_edits' :
          e.message_id = f.message_id /\ e.version = f.version => e = f
     /\ \A t \in Tasks :
          ( /\ Steps(t, "message:edit") /\ tasks[t].pc = "history"
            /\ \E e \in message_edits :
                 /\ e.message_id = tasks[t].data.messageId
                 /\ e.version = tasks[t].nextVersion ) =>
            /\ tasks'[t].pc = "done"
            /\ tasks'[t].ack.ok = FALSE
            /\ UNCHANGED << messages, message_edits, broadcasts >>]_vars

\* Two edits of message 1 computed version 1: one inserted the history row and
\* updated the message, the other was refused by the store
C25_Witness ==
  \E t, u \in Tasks :
    /\ tasks[t].ev = "message:edit" /\ tasks[t].pc = "done" /\ tasks[t].ack.ok
    /\ tasks[u].ev = "message:edit" /\ tasks[u].pc = "done"
    /\ tasks[u].ack = socketError("duplicate key value violates unique constraint", "null")
    /\ tasks[u].payload.messageId = 1 /\ tasks[t].payload.messageId = 1
    /\ {e.version : e \in EditsOf(1)} = {1}
    /\ Cardinality(EditsOf(1)) = 1
    /\ messages[1].body = Trim(tasks[t].payload.body)
    /\ BagCardinality(UpdatedBroadcasts(1)) = 1

\* C26: the history row of an edit holds the body the message had immediately
\* before that edit's update, and a body the message stops holding is kept in
\* its history.
C26_HistoryHoldsPriorBody ==
  [][/\ \A t \in Tasks :
          Steps(t, "message:edit") /\ tasks[t].pc = "update" =>
            \E e \in message_edits :
              /\ e.message_id = tasks[t].data.messageId
              /\ e.version = tasks[t].nextVersion
              /\ e.body = messages[tasks[t].data.messageId].body
     /\ \A m \in 1..Len(messages) :
          messages'[m].body /= messages[m].body =>
            \E e \in message_edits' :
              e.message_id = m /\ e.body = messages[m].body]_vars

\* Message 1 held "b", as the acknowledgment of one edit shows, holds "a" now,
\* and no row of its history holds "b"
C26_Witness ==
  \E t, u \in Tasks :
    /\ t /= u
    /\ tasks[t].ev = "message:edit" /\ tasks[t].pc = "done" /\ tasks[t].ack.ok
    /\ tasks[u].ev = "message:edit" /\ tasks[u].pc = "done" /\ tasks[u].ack.ok
    /\ tasks[t].ack.message.id = 1 /\ tasks[t].ack.message.body = <<"b">>
    /\ tasks[u].ack.message.id = 1 /\ tasks[u].ack.message.body = <<"a">>
    /\ messages[1].body = <<"a">>
    /\ {[version |-> e.version, body |-> e.body] : e \in EditsOf(1)} =
         {[version |-> 1, body |-> <<"a">>], [version |-> 2, body |-> <<"a">>]}

\* The acknowledgments of the failures of message:edit other than a version
\* collision: validation, not found, deleted, not yours, no access, store
\* unreachable
OtherEditFailures ==
  {socketError("Invalid payload", "flatten")} \cup
  {socketError(error, "null") :
     error \in {"Message not found", "Message is deleted", "Not your message",
                "No access to conversation", StoreDown,
                "Failed to edit message"}}

\* The acknowledgment says more than ok:false and the text of the thrown
\* error: it has details, or a field besides ok, error and details
ConflictMarked(ack) ==
  ack.details /= "null" \/ DOMAIN ack /= {"ok", "error", "details"}

\* C27: the history insert of an edit whose (message_id, version) is taken ends
\* the handler with an {ok:false} acknowledgment; unless the store itself was
\* unreachable, that acknowledgment is none of the other failures' and is
\* marked as a retryable conflict.
C27_CollisionIsRetryableConflict ==
  [][\A t \in Tasks :
       ( /\ Steps(t, "message:edit") /\ tasks[t].pc = "history"
         /\ EditKeyTaken(tasks[t].data.messageId, tasks[t].nextVersion) ) =>
         /\ tasks'[t].pc = "done"
         /\ tasks'[t].ack.ok = FALSE
         /\ \/ tasks'[t].ack \in {socketError(StoreDown, "null"),
                                  socketError("Failed to edit message", "null")}
            \/ /\ tasks'[t].ack \notin OtherEditFailures
               /\ ConflictMarked(tasks'[t].ack)]_vars

\* The loser of a version collision holds an acknowledgment made of ok:false,
\* the store's error text and null details
C27_Witness ==
  \E t \in Tasks :
    /\ tasks[t].ev = "message:edit" /\ tasks[t].pc = "done"
    /\ tasks[t].ack.ok = FALSE
    /\ tasks[t].ack \notin OtherEditFailures
    /\ DOMAIN tasks[t].ack = {"ok", "error", "details"}
    /\ tasks[t].ack.details = "null"
    /\ EditKeyTaken(tasks[t].payload.messageId, 1)

\* C28: once no edit handler is running, a message has as many history rows
\* as updates of its body and edited_at, whether the handlers succeeded or
\* failed: a failed edit left no history row and a successful one left its row.
C28_EditIsAtomic ==
  Idle =>
    \A m \in 1..Len(messages) :
      /\ Cardinality(EditsOf(m)) = BagCardinality(UpdatedBroadcasts(m))
      /\ EditsOf(m) = {} <=> messages[m].edited_at = NULL

\* An edit of message 1 was acknowledged with the store's failure after its
\* history row was inserted: the row is there, the message is as it was
C28_Witness ==
  /\ Idle
  /\ \E t \in Tasks :
       /\ tasks[t].ev = "message:edit" /\ tasks[t].pc = "done"
       /\ tasks[t].ack = socketError(StoreDown, "null")
       /\ tasks[t].payload.messageId = 1
  /\ Cardinality(EditsOf(1)) = 1
  /\ messages[1].edited_at = NULL /\ messages[1].body = <<"a">>
  /\ BagCardinality(UpdatedBroadcasts(1)) = 0

\* C29: a message:send handler that ends with {ok:false} has inserted no
\* message row, and once no handler is running every message row has been
\* broadcast as message:new.
C29_SendIsAtomic ==
  [][/\ \A t \in Tasks :
          ( /\ tasks'[t] /= tasks[t]
            /\ tasks'[t].ev = "message:send" /\ tasks'[t].pc = "done"
            /\ tasks'[t].ack.ok = FALSE ) =>
            \A m \in 1..Len(messages') : messages'[m] /= tasks[t].message
     /\ Idle' =>
          \A m \in 1..Len(messages') :
            \E e \in BagToSet(broadcasts') :
              e.event = "message:new" /\ e.payload.message = messages'[m]]_vars

\* A send was acknowledged with the store's failure after its row was
\* inserted: the message is stored and was never broadcast
C29_Witness ==
  /\ Idle
  /\ \E t \in Tasks :
       /\ tasks[t].ev = "message:send" /\ tasks[t].pc = "done"
       /\ tasks[t].ack = socketError(StoreDown, "null")
       /\ Len(messages) = 1
       /\ messages[1].sender_user_id = tasks[t].userId
       /\ messages[1].body = Trim(tasks[t].payload.body)
  /\ \A e \in BagToSet(broadcasts) : e.event /= "message:new"
  /\ \A t \in Tasks : tasks[t].pc = "done" => tasks[t].ack.ok = FALSE

\* C30: a message is inserted, edited or soft-deleted, and a read receipt is
\* broadcast, only for a user who has a participant row of the conversation at
\* the moment of the write, whatever removals of rows come between the access
\* check and the write; a conversation:read acknowledged {ok:true} carries a
\* readAt that is not null.
C30_NoCheckThenActGap ==
  [][/\ Len(messages') > Len(messages) =>
          Participant(messages'[Len(messages')].conversation_id,
                      messages'[Len(messages')].sender_user_id)
     /\ \A m \in 1..Len(messages) :
          ( \/ messages'[m].body /= messages[m].body
            \/ messages'[m].edited_at /= messages[m].edited_at
            \/ messages'[m].deleted_at /= messages[m].deleted_at ) =>
            \E t \in Tasks, ev \in MutateEvents :
              /\ Steps(t, ev)
              /\ tasks[t].data.messageId = m
              /\ Participant(messages[m].conversation_id, tasks[t].userId)
     /\ \A t \in Tasks :
          Steps(t, "conversation:read") /\ broadcasts' /= broadcasts =>
            Participant(tasks[t].data.conversationId, tasks[t].userId)
     /\ \A t \in Tasks :
          ( /\ tasks'[t] /= tasks[t]
            /\ tasks'[t].ev = "conversation:read" /\ tasks'[t].pc = "done"
            /\ tasks'[t].ack.ok ) =>
            tasks'[t].ack.readAt /= NULL]_vars

\* A conversation:read of a user whose participant row was removed after the
\* access check was acknowledged {ok:true} with readAt null and broadcast
C30_Witness ==
  \E t \in Tasks :
    /\ tasks[t].ev = "conversation:read" /\ tasks[t].pc = "done"
    /\ tasks[t].ack = socketOk([conversationId |-> 1, readAt |-> NULL])
    /\ ~Participant(1, tasks[t].userId)
    /\ \E e \in BagToSet(broadcasts) :
         /\ e.event = "conversation:read"
         /\ e.payload = [conversationId |-> 1, userId |-> tasks[t].userId,
                         readAt |-> NULL]

\* C31: a failed store query of the initial resync changes neither the
\* connection, nor the registry, nor the rooms, nor what was emitted: the
\* connection stays ready, registered, in its user room and has been sent
\* chat:ready; its later conversation:join for a conversation its user has
\* access to is acknowledged {ok:true} and joins the room.
C31_ResyncFailureIsNotFatal ==
  [][/\ \A s \in SocketIds :
          resync[s] = "pending" /\ resync'[s] = "failed" =>
            UNCHANGED << sockets, onlineSocketsByUser, rooms, broadcasts,
                         presenceTasks, tasks >>
     /\ \A s \in SocketIds :
          resync'[s] = "failed" =>
            /\ sockets'[s].state = "ready"
            /\ s \in GetOrEmpty(onlineSocketsByUser', sockets'[s].userId)
            /\ <<s, userRoom(sockets'[s].userId)>> \in rooms'
            /\ BagIn(Emit("chat:ready", <<"socket", s>>,
                          [userId |-> sockets'[s].userId]), broadcasts')
     /\ \A t \in Tasks :
          ( /\ Steps(t, "conversation:join") /\ tasks[t].pc = "access"
            /\ resync[tasks[t].sock] = "failed"
            /\ <<tasks[t].data.conversationId, tasks[t].userId>>
                 \in DOMAIN conversation_participants ) =>
            /\ tasks'[t].pc = "done"
            /\ tasks'[t].ack = socketOk([conversationId |-> tasks[t].data.conversationId])
            /\ <<tasks[t].sock, conversationRoom(tasks[t].data.conversationId)>>
                 \in rooms']_vars

\* The resync of connection 1 failed; its conversation:join of conversation 1
\* was acknowledged {ok:true} and it is in the room
C31_Witness ==
  /\ resync[1] = "failed" /\ sockets[1].state = "ready"
  /\ \E t \in Tasks :
       /\ tasks[t].ev = "conversation:join" /\ tasks[t].pc = "done"
       /\ tasks[t].sock = 1
       /\ tasks[t].ack = socketOk([conversationId |-> 1])
  /\ <<1, conversationRoom(1)>> \in rooms
  /\ <<1, userRoom(sockets[1].userId)>> \in rooms
  /\ 1 \in GetOrEmpty(onlineSocketsByUser, sockets[1].userId)

\* C32: the disconnect of a ready connection removes exactly that connection
\* id from the registry; a disconnect signalled again for a closed connection
\* returns becameOffline = false, leaves the registry as it was and starts no
\* presence fan-out, and between connects and disconnects the registry and the
\* fan-outs started do not change.
C32_DisconnectTakesEffectOnce ==
  [][/\ \A s \in SocketIds :
          sockets[s].state = "ready" /\ sockets'[s].state = "closed" =>
            /\ s \in GetOrEmpty(onlineSocketsByUser, sockets[s].userId)
            /\ \A u \in Users :
                 GetOrEmpty(onlineSocketsByUser', u) =
                   GetOrEmpty(onlineSocketsByUser, u) \ {s}
     /\ sockets' = sockets =>
          /\ onlineSocketsByUser' = onlineSocketsByUser
          /\ presenceCalls' = presenceCalls
          /\ presenceTasks' \subseteq presenceTasks
     /\ lastCall' /= lastCall => lastCall'.ret = FALSE]_vars

\* The disconnect of connection 1 was signalled again while its user was
\* still online through connection 2 and a handler of connection 1 was in
\* flight: one offline fan-out at most was started for the user
C32_Witness ==
  /\ lastCall.fn = "remove" /\ lastCall.socketId = 1 /\ lastCall.ret = FALSE
  /\ sockets[1].state = "closed" /\ sockets[2].state = "ready"
  /\ sockets[2].userId = sockets[1].userId
  /\ onlineSocketsByUser = lastCall.before
  /\ GetOrEmpty(onlineSocketsByUser, sockets[1].userId) = {2}
  /\ \E t \in Tasks : tasks[t].sock = 1 /\ tasks[t].pc = "access"
  /\ presenceCalls[sockets[1].userId] = <<TRUE>>

\* C33: a handler whose store call fails ends with an {ok:false}
\* acknowledgment whose error is not the store's own text, and leaves the
\* connections and the presence registry as they were; a presence fan-out
\* whose store call fails leaves the connections, the registry, the rooms and
\* the emitted events as they were.
C33_StoreFailureIsGeneric ==
  [][/\ \A t \in Tasks :
          tasks'[t] /= tasks[t] /\ tasks'[t].pc = "done" /\ tasks'[t].cb =>
            /\ tasks'[t].ack.ok = FALSE => tasks'[t].ack.error /= StoreDown
            /\ UNCHANGED << sockets, onlineSocketsByUser >>
     /\ presenceTasks' /= presenceTasks /\ presenceCalls' = presenceCalls =>
          UNCHANGED << sockets, onlineSocketsByUser, rooms >>]_vars

\* A message:send of a ready and registered connection was acknowledged with
\* the text of the store's error
C33_Witness ==
  \E t \in Tasks :
    /\ tasks[t].ev = "message:send" /\ tasks[t].pc = "done"
    /\ tasks[t].ack = socketError(StoreDown, "null")
    /\ sockets[tasks[t].sock].state = "ready"
    /\ tasks[t].sock \in GetOrEmpty(onlineSocketsByUser, tasks[t].userId)

\* C34: every handler that has started ends, acknowledging its caller, even
\* when a store call it awaits never answers.
C34_HandlersEnd ==
  \A t \in Tasks : (tasks[t].pc \notin {"idle", "done"}) ~> (tasks[t].pc = "done")

\* A message:send handler is at an await that never settles; its caller has
\* no acknowledgment
C34_Witness ==
  \E t \in Tasks :
    /\ tasks[t].ev = "message:send" /\ tasks[t].pc = "hung"
    /\ tasks[t].cb /\ tasks[t].ack = NoAck
    /\ ~ENABLED SendStepOf(t)

\* C35: the presence fan-outs of a user reach the rooms in the order in which
\* they were started: when one of them broadcasts, no fan-out of the user that
\* was started after it has completed already.
C35_PresenceInOrder ==
  [][\A task \in presenceTasks :
       task \notin presenceTasks' /\ broadcasts' /= broadcasts =>
         \A n \in (task.n + 1)..Len(presenceCalls[task.userId]) :
           [userId |-> task.userId, isOnline |-> presenceCalls[task.userId][n],
            n |-> n] \in presenceTasks]_vars

\* User 1 connected, disconnected and connected again; the online fan-out of
\* the reconnect has broadcast while the offline fan-out of the disconnect is
\* still to broadcast
C35_Witness ==
  /\ presenceCalls[1] = <<TRUE, FALSE, TRUE>>
  /\ presenceTasks = {[userId |-> 1, isOnline |-> FALSE, n |-> 2]}
  /\ isUserOnline(onlineSocketsByUser, 1)
  /\ ensureConversationAccess(1, 1)
  /\ CopiesIn(Emit("presence:update", conversationRoom(1),
                   [userId |-> 1, isOnline |-> TRUE]), broadcasts) = 2
  /\ ENABLED EmitPresenceForUser([userId |-> 1, isOnline |-> FALSE, n |-> 2])

\* The message:deleted events broadcast for message `messageId`
DeletedEvents(bag, messageId) ==
  {e \in BagToSet(bag) : e.event = "message:deleted" /\ e.payload.messageId = messageId}

\* C36: under any interleaving of message:delete handlers a deleted_at that is
\* set is never overwritten, a delete that is acknowledged without
\* alreadyDeleted found the message not deleted when it wrote, and at most one
\* message:deleted is broadcast for a message.
C36_DeleteTakesEffectOnce ==
  [][/\ \A m \in 1..Len(messages) :
          messages[m].deleted_at /= NULL =>
            messages'[m].deleted_at = messages[m].deleted_at
     /\ \A t \in Tasks :
          ( /\ Steps(t, "message:delete") /\ tasks'[t].pc = "done"
            /\ tasks'[t].ack.ok /\ "alreadyDeleted" \notin DOMAIN tasks'[t].ack ) =>
            messages[tasks[t].data.messageId].deleted_at = NULL
     /\ \A m \in 1..Len(messages) :
          /\ Cardinality(DeletedEvents(broadcasts', m)) <= 1
          /\ \A e \in DeletedEvents(broadcasts', m) : CopiesIn(e, broadcasts') = 1]_vars

\* Two deletes of message 1 both read deleted_at as null: both were
\* acknowledged with the deleted row, two message:deleted events were broadcast
\* and deleted_at holds the time of the second
C36_Witness ==
  /\ \A t \in Tasks :
       /\ tasks[t].ev = "message:delete" /\ tasks[t].pc = "done"
       /\ tasks[t].ack.ok /\ "alreadyDeleted" \notin DOMAIN tasks[t].ack
       /\ tasks[t].ack.message.id = 1
  /\ tasks[1].ack.message.deleted_at /= tasks[2].ack.message.deleted_at
  /\ Cardinality(DeletedEvents(broadcasts, 1)) = 2
  /\ \E t \in Tasks :
       /\ messages[1].deleted_at = tasks[t].ack.message.deleted_at
       /\ \A u \in Tasks : tasks[u].ack.message.deleted_at <= messages[1].deleted_at

\* C37: in every reachable state the versions of the history rows of a message
\* are 1, ..., k for its k rows, whatever edits succeeded, failed, collided or
\* lost the store.
C37_VersionsAreContiguous ==
  \A m \in 1..Len(messages) :
    LET versions == {e.version : e \in EditsOf(m)}
    IN /\ versions = 1..Cardinality(EditsOf(m))
       /\ Cardinality(versions) = Cardinality(EditsOf(m))

\* Message 1 has the history rows 1 and 2 after one edit lost a version
\* collision
C37_Witness ==
  /\ {e.version : e \in EditsOf(1)} = {1, 2}
  /\ Cardinality(EditsOf(1)) = 2
  /\ \E t \in Tasks :
       /\ tasks[t].ev = "message:edit" /\ tasks[t].pc = "done"
       /\ tasks[t].ack =
            socketError("duplicate key value violates unique constraint", "null")

\* C39: when message:new is broadcast for a conversation, every ready
\* connection whose initial resync has completed and whose user has a
\* participant row of the conversation is in the room of the conversation.
C39_ParticipantsReceiveNewMessages ==
  [][\A e \in BagToSet(broadcasts') :
       ( /\ e.event = "message:new"
         /\ CopiesIn(e, broadcasts') > CopiesIn(e, broadcasts) ) =>
         \A s \in SocketIds :
           ( /\ sockets[s].state = "ready" /\ resync[s] = "done"
             /\ Participant(e.payload.message.conversation_id, sockets[s].userId) ) =>
             <<s, e.room>> \in rooms]_vars

\* Both clients were connected and resynced before conversation 1 was opened
\* through POST /conversations; a message:new for it was broadcast to a room
\* that holds neither of them
C39_Witness ==
  /\ \A s \in SocketIds : sockets[s].state = "ready" /\ resync[s] = "done"
  /\ sockets[1].userId /= sockets[2].userId
  /\ \A s \in SocketIds : Participant(1, sockets[s].userId)
  /\ \E e \in BagToSet(broadcasts) :
       /\ e.event = "message:new" /\ e.room = conversationRoom(1)
       /\ Receivers(e) = {}
  /\ Len(messages) = 1 /\ messages[1].conversation_id = 1

\* C40: a PATCH /listings/:id writes the fields of a listing only when the
\* status the listing has at the moment of the UPDATE is DRAFT or REJECTED,
\* whatever submit, archive, delete, approve, reject or status change runs
\* next to it
C40_PatchWritesOnlyDraftOrRejected ==
  [][\A t \in Tasks :
       (/\ At(t, "PATCH /listings/:id", "update")
        /\ tasks'[t].pc = "done"
        /\ listings' /= listings)
       => listings[tasks[t].data.id].status \in {"DRAFT", "REJECTED"}]_vars

\* A PATCH has answered 200 with the row it wrote, and the row is PENDING
C40_Witness ==
  \E t \in Tasks :
    /\ tasks[t].ev = "PATCH /listings/:id"
    /\ tasks[t].pc = "done"
    /\ tasks[t].ack.status = 200
    /\ "title" \in DOMAIN tasks[t].ack.json
    /\ tasks[t].ack.json.status = "PENDING"
    /\ tasks[t].ack.json.title = tasks[t].payload.body.title
    /\ listings[tasks[t].payload.id].status = "PENDING"
    /\ listings[tasks[t].payload.id].title = tasks[t].payload.body.title

\* C13: in every interleaving of a message:edit handler with a message:delete
\* handler on the same message, once the message's deleted_at is set its body
\* and edited_at never change again, no further edit row is inserted for it,
\* and no message:updated carrying its body is broadcast after its
\* message:deleted.
C13_DeletedIsFrozen ==
  [][\A m \in 1..Len(messages) :
       messages[m].deleted_at /= NULL =>
         /\ messages'[m].body = messages[m].body
         /\ messages'[m].edited_at = messages[m].edited_at
         /\ EditsOf(m)' = EditsOf(m)
         /\ UpdatedBroadcasts(m)' = UpdatedBroadcasts(m)]_vars

\* An edit that passed its checks before the delete committed has rewritten
\* the deleted message and broadcast it
C13_Witness ==
  /\ messages[1].deleted_at >= StartClock
  /\ messages[1].edited_at > messages[1].deleted_at
  /\ messages[1].body = <<"b">>
  /\ \E e \in EditsOf(1) : e.edited_at > messages[1].deleted_at
  /\ DeletedBroadcasts = 1
  /\ \E e \in DOMAIN UpdatedBroadcasts(1) : e.payload.message.deleted_at /= NULL

=============================================================================
